---- MODULE Spec2Model ----
(***************************************************************************)
(* Model of shadow-html-renderer: the shadow-root renderer                 *)
(* (renderers/shadowRenderer.ts), the @font-face collector                 *)
(* (styles/fontFaceCollector.ts), the CSS helpers (styles/cssUtils.ts)      *)
(* and the font injector (styles/fontInjector.ts).                          *)
(*                                                                         *)
(* Text is a sequence of lexical tokens.  A token is a record              *)
(* [t, dir, file, q]: t is the kind of token, dir/file carry the URL of a  *)
(* url(...) reference or of an @import directive (dir = "" for a relative  *)
(* reference), q the quote of a url(...) reference.  CSS sources,          *)
(* @font-face rules and the text of the sink                               *)
(* are all token sequences, so substring containment is containment of a   *)
(* contiguous run of tokens.                                               *)
(***************************************************************************)
EXTENDS Integers, Sequences, FiniteSets, TLC

\* ------------------------------------------------------------------ bounds

\* Calls (render, extractAndInjectFontFaces, injectFontFaces,
\* clearShadowRoot) made in one behaviour.
MaxCalls == 2

\* Nested processCss invocations one collector may hold.  No run of the
\* collector gets there (DepthBelowCap): the cap only keeps the state
\* space finite when the visited set is taken out of the collector.
MaxDepth == 4

\* Script elements in the document of a script-enabled render.
MaxScripts == 2

\* Tokens in a CSS source handed to extractFontFaceBlocks on its own.
MaxLen == 5

\* url(...) references in a block handed to rebaseUrls on its own.
MaxRefs == 2

\* ------------------------------------------------------------------ tokens

\* q is the quote of a url(...) reference: "", "dq" or "sq".
Tok(t, dir, file) == [t |-> t, dir |-> dir, file |-> file, q |-> ""]

FF == Tok("@font-face", "", "")
LB == Tok("{", "", "")
RB == Tok("}", "", "")
NL == Tok("\n", "", "")
Cmt == Tok("/**/", "", "")
Txt(s) == Tok("txt", "", s)
Url(dir, file) == Tok("url", dir, file)
UrlQ(q, dir, file) == [t |-> "url", dir |-> dir, file |-> file, q |-> q]
Imp(dir, file) == Tok("@import", dir, file)

\* An absolute URL.
Abs(dir, file) == [dir |-> dir, file |-> file]

\* The element of a singleton.  The({f(x) : x \in {e}}) is f(e) with e
\* evaluated once, where LET x == e IN f(x) evaluates e at every use of x.
The(S) == CHOOSE x \in S : TRUE

\* ------------------------------------------------------------ cssUtils.ts

\* css.replace(/\/\*[\s\S]*?\*\//g, '')
StripComments(css) == SelectSeq(css, LAMBDA k : k.t # "/**/")

\* css.indexOf(tok, pos), positions counted from 1; 0 when there is none.
IndexOf(css, t, pos) ==
  LET hits == {i \in pos..Len(css) : css[i].t = t}
  IN  IF hits = {} THEN 0 ELSE CHOOSE i \in hits : \A j \in hits : i <= j

\* The inner while loop of extractFontFaceBlocks: <<i, depth>> when it ends.
RECURSIVE CountBraces(_, _, _)
CountBraces(css, i, depth) ==
  IF i <= Len(css) /\ depth > 0
  THEN CountBraces(css, i + 1,
         IF css[i].t = "{" THEN depth + 1
         ELSE IF css[i].t = "}" THEN depth - 1 ELSE depth)
  ELSE <<i, depth>>

\* Mutant: after a block that does not close, the scan goes on behind its
\* @font-face.
RECURSIVE BlocksFromResume(_, _, _)
BlocksFromResume(css, pos, blocks) ==
  IF pos > Len(css) THEN blocks
  ELSE LET start == IndexOf(css, "@font-face", pos)
       IN  IF start = 0 THEN blocks
           ELSE LET braceStart == IndexOf(css, "{", start)
                IN  IF braceStart = 0 THEN blocks
                    ELSE LET e == CountBraces(css, braceStart + 1, 1)
                         IN  IF e[2] = 0
                             THEN BlocksFromResume(css, e[1],
                                    Append(blocks, SubSeq(css, start, e[1] - 1)))
                             ELSE BlocksFromResume(css, start + 1, blocks)

\* The outer while loop of extractFontFaceBlocks.
RECURSIVE BlocksFrom(_, _, _)
BlocksFrom(css, pos, blocks) ==
  IF pos > Len(css) THEN blocks
  ELSE LET start == IndexOf(css, "@font-face", pos)
       IN  IF start = 0 THEN blocks
           ELSE LET braceStart == IndexOf(css, "{", start)
                IN  IF braceStart = 0 THEN blocks
                    ELSE The({BlocksFrom(css, e[1],
                                IF e[2] = 0
                                THEN Append(blocks, SubSeq(css, start, e[1] - 1))
                                ELSE blocks) :
                              e \in {CountBraces(css, braceStart + 1, 1)}})

ExtractFontFaceBlocks(css) == BlocksFrom(css, 1, <<>>)

\* The directory above dir; the root of a host is its own parent.
Parent(dir) == IF dir = "s/css" THEN "s" ELSE dir

\* new URL(url, base): a reference with a scheme stands for itself, a
\* protocol-relative one takes the scheme of the base, a fragment is put
\* on the base, any other is resolved in the directory of the base ("" )
\* or in the directory above it (".."); without an absolute base the
\* constructor throws for every reference that has no scheme.
NewUrl(ref, base) ==
  IF ref.dir \notin {"", "..", "//", "#"}
  THEN [ok |-> TRUE, url |-> Abs(ref.dir, ref.file)]
  ELSE IF base.dir = ""
  THEN [ok |-> FALSE, url |-> Abs(ref.dir, ref.file)]
  ELSE IF ref.dir = "//" THEN [ok |-> TRUE, url |-> Abs("https://", ref.file)]
  ELSE IF ref.dir = "#" THEN [ok |-> TRUE, url |-> Abs(base.dir, "index#")]
  ELSE [ok |-> TRUE,
        url |-> Abs(IF ref.dir = ".." THEN Parent(base.dir) ELSE base.dir, ref.file)]

\* resolveUrl(url, base): new URL(url, base).toString(), or url when the
\* constructor throws.
ResolveUrl(ref, base) == NewUrl(ref, base).url

\* Mutant: no target is recognised as absolute.
UntouchedNever(dir) == FALSE

\* /^(data:|blob:|http:|https:|\/\/|#)/i.test(orig); an http: or https:
\* target is named by its host and directory.
Untouched(dir) == dir \in {"data:", "blob:", "//", "#", "h", "s", "s/css"}

\* The replacement of one match of urlRe: the quote is the one of the
\* capture group that matched, the target is left alone or resolved, and
\* kept when new URL throws.
RebaseMatch(ref, baseUrl) ==
  IF Untouched(ref.dir)
  THEN UrlQ(ref.q, ref.dir, ref.file)
  ELSE LET abs == NewUrl(ref, baseUrl).url
       IN  UrlQ(ref.q, abs.dir, abs.file)

\* cssBlock.replace(urlRe, ...): every url(...) of the block is replaced.
RebaseUrls(cssBlock, baseUrl) ==
  [i \in 1..Len(cssBlock) |->
     IF cssBlock[i].t = "url" THEN RebaseMatch(cssBlock[i], baseUrl) ELSE cssBlock[i]]

\* importRegex.exec(css) with the cursor at lastIndex: the position of the
\* next @import directive, 0 when exec returns null.
ExecImport(css, lastIndex) == IndexOf(css, "@import", lastIndex + 1)

\* Mutant: a failed match leaves the cursor behind the end of the text.
LastIndexPastEnd(css) == Len(css) + 1

\* importRegex.lastIndex after exec has returned null: a global regex is
\* reset to the start.
LastIndexAfterNull(css) == 0

\* ------------------------------------------------------- fontInjector.ts

\* Mutant: the containment test never finds the rule.
IncludesNever(text, rule) == FALSE

\* existing.includes(rule)
Includes(text, rule) ==
  \E i \in 0..(Len(text) - Len(rule)) : SubSeq(text, i + 1, i + Len(rule)) = rule

\* Mutant: no rule is appended.
AppendedNone(existing, rules, k) == <<>>

\* Mutant: every rule is appended, whatever the sink holds.
RECURSIVE AppendedAll(_, _, _)
AppendedAll(existing, rules, k) ==
  IF k = 0 THEN <<>>
  ELSE LET appended == AppendedAll(existing, rules, k - 1)
       IN  appended \o (IF appended # <<>> THEN <<NL>> ELSE <<>>) \o rules[k]

\* The value of `appended` after the for loop has considered the first k
\* rules of the iterable.
RECURSIVE AppendedAfter(_, _, _)
AppendedAfter(existing, rules, k) ==
  IF k = 0 THEN <<>>
  ELSE LET appended == AppendedAfter(existing, rules, k - 1)
           rule == rules[k]
       IN  IF ~Includes(existing, rule)
           THEN appended \o (IF appended # <<>> THEN <<NL>> ELSE <<>>) \o rule
           ELSE appended

\* Mutant: the text is assigned (=) instead of appended to (+=).
WriteTextReplace(text, appended) == IF appended # <<>> THEN appended ELSE text

\* styleEl.textContent += (styleEl.textContent ? '\n' : '') + appended
WriteText(text, appended) ==
  IF appended # <<>>
  THEN text \o (IF text # <<>> THEN <<NL>> ELSE <<>>) \o appended
  ELSE text

\* Mutant: the lookup never finds the element.
GetElementByIdNull(h, id) == 0

\* document.getElementById(id) in the head: the position of the first
\* element with the id, 0 for null.
GetElementById(h, id) ==
  LET hits == {i \in 1..Len(h) : h[i].id = id}
  IN  IF hits = {} THEN 0 ELSE CHOOSE i \in hits : \A j \in hits : i <= j

\* The head after injectFontFaces(rules, styleElementId).
InjectFontFaces(h, rules, styleElementId) ==
  LET found == GetElementById(h, styleElementId)
      h1 == IF found = 0 THEN Append(h, [id |-> styleElementId, text |-> <<>>]) ELSE h
      at == IF found = 0 THEN Len(h1) ELSE found
      existing == h1[at].text
      appended == AppendedAfter(existing, rules, Len(rules))
  IN  [h1 EXCEPT ![at].text = WriteText(h1[at].text, appended)]

\* ------------------------------------------------------------- the world

\* document.baseURI of the host page.
HostBase == Abs("h", "index")

Dirs == {"h", "s"}
Files == {"a", "b", "c"}
URLs == {Abs(d, f) : d \in Dirs, f \in Files}
NoUrl == Abs("", "")

\* What the network serves.  s/a.css imports itself and h/b.css; h/b.css
\* imports s/a.css back (a cycle) and h/c.css and its rule has nested
\* braces; the rule of h/c.css is the rule of s/a.css once rebased.
Sheet(url) ==
  IF url = Abs("s", "a")
  THEN <<FF, LB, Txt("F"), Url("", "f"), RB, Imp("", "a"), Imp("h", "b")>>
  ELSE IF url = Abs("h", "b")
  THEN <<FF, LB, Txt("G"), LB, Url("", "f"), RB, RB, Imp("s", "a"), Imp("", "c")>>
  ELSE IF url = Abs("h", "c")
  THEN <<FF, LB, Txt("F"), Url("s", "f"), RB>>
  ELSE <<>>

\* How `await fetch(url)` can end: fetch() rejects, the response is not ok,
\* or the response is ok.  How `await res.text()` can end: it rejects, or
\* the text arrives.
FetchOutcomes == {"neterr", "notok", "response"}
TextOutcomes == {"bodyerr", "ok"}

Link(rel, as, href, disabled, media) ==
  [rel |-> rel, as |-> as, href |-> href, disabled |-> disabled, media |-> media]

\* An href attribute: hasHref is FALSE when the attribute is absent.
Href(dir, file) == [has |-> TRUE, dir |-> dir, file |-> file]
NoHref == [has |-> FALSE, dir |-> "", file |-> ""]

\* The HTML inputs and the documents DOMParser makes of them.  "fonts"
\* has a <base href> in directory s, two style blocks (the first with a
\* comment, a rule and three @import directives, one of them with an empty
\* url; the second with an unbalanced rule only, so that the document
\* holds one whole @font-face block of its own) and link elements of every
\* kind the collector tells apart.  "plain" has no style and no link.
Htmls == {"plain", "fonts"}

\* A document of link elements only, no two of which lead to the same
\* stylesheet unless both are skipped: an alternate, a disabled one, one
\* whose media does not match, one with an empty href, one whose media
\* matches, one whose media cannot be evaluated and one without media.
LinksHtml == "links"

\* The root of every document the HTML parser builds: an html element
\* with a head and a body, whether or not the input wrote the tags.
DocumentElement == [tag |-> "html", kids |-> <<"head", "body">>]

\* Whether the input writes the html, head and body tags itself.
Wrapped(html) == html = "fonts"

Parse(html) ==
  IF html = "fonts"
  THEN [root |-> DocumentElement, base |-> "s",
        styles |-> << <<Cmt, FF, LB, Txt("F"), Url("", "f"), RB,
                        Imp("", "a"), Imp("", ""), Imp("h", "c")>>,
                      <<FF, LB, Txt("H")>> >>,
        links |-> << Link(<<"alternate", "stylesheet">>, "", Href("", "b"), FALSE, ""),
                     Link(<<"stylesheet">>, "", Href("", "b"), TRUE, ""),
                     Link(<<"stylesheet">>, "", Href("", "b"), FALSE, "print"),
                     Link(<<"stylesheet">>, "", Href("", ""), FALSE, ""),
                     Link(<<"icon">>, "", Href("", "b"), FALSE, ""),
                     Link(<<"stylesheet">>, "", NoHref, FALSE, ""),
                     Link(<<"stylesheet">>, "", Href("h", "c"), FALSE, "screen"),
                     Link(<<"preload">>, "style", Href("h", "c"), FALSE, "("),
                     Link(<<"stylesheet">>, "", Href("h", "b"), FALSE, "") >>,
        scripts |-> <<"s1">>]
  ELSE IF html = "links"
  THEN [root |-> DocumentElement, base |-> "", styles |-> <<>>,
        links |-> << Link(<<"alternate", "stylesheet">>, "", Href("s", "b"), FALSE, ""),
                     Link(<<"stylesheet">>, "", Href("s", "b"), TRUE, ""),
                     Link(<<"stylesheet">>, "", Href("s", "c"), FALSE, "print"),
                     Link(<<"stylesheet">>, "", Href("", ""), FALSE, ""),
                     Link(<<"stylesheet">>, "", Href("", "c"), FALSE, "screen"),
                     Link(<<"preload">>, "style", Href("", "a"), FALSE, "("),
                     Link(<<"stylesheet">>, "", Href("", "b"), FALSE, "") >>,
        scripts |-> <<>>]
  ELSE [root |-> DocumentElement, base |-> "", styles |-> <<>>, links |-> <<>>,
        scripts |-> <<"s2">>]

Targets == {"root1", "root2"}
NoTarget == "none"
DefaultSink == "shadow-dom-fonts"
SinkIds == {DefaultSink, "other"}

\* Iterables handed to injectFontFaces directly.
RuleX == <<FF, LB, Txt("X"), RB>>
DirectRules == { <<>>, <<RuleX, RuleX>>, <<RuleX, <<Txt("X")>> >> }

\* window.matchMedia(media): "match", "nomatch", or "throw" for a value it
\* cannot evaluate.
MatchMedia(media) ==
  IF media = "screen" THEN "match" ELSE IF media = "print" THEN "nomatch" ELSE "throw"

\* ------------------------------------------------------------------ state

Slots == {"p", "q"}

VARIABLES
  children,   \* children[t]: the child nodes of shadow root t, in order
  head,       \* the <style> elements of document.head that carry an id
  net,        \* net[u]: whether u serves its text ("ok") or fails ("fail");
              \* "unset" until a fetch of u has ended
  executed,   \* the scripts that have run in the host page
  pc,         \* pc[s]: where the call in slot s is suspended
  call,       \* call[s]: the arguments of the call in slot s
  col,        \* col[s]: the locals of collectFontFaceRulesFromDocument
  hist,       \* hist[s]: what the call in slot s has done so far
  injLog,     \* one record per injectFontFaces call, in order
  doneLog,    \* one record per call that has resolved, in order
  ncalls,     \* calls made so far
  dpc,        \* where the script-enabled render is suspended
  descs,      \* the script descriptors of the script-enabled render, in source order
  buckets,    \* buckets[b]: the positions in descs replayed in bucket b, in order
  status,     \* status[i]: "marker", "loading" or "done" for descriptor i
  trace,      \* the replay events of the script-enabled render, in order
  imported,   \* the script-enabled render has imported the parsed tree
  settled,    \* the target has flushed its structural update after the import
  tree,       \* the script positions of the tree of the script-enabled render
  life,       \* life[t]: the lifecycle of the component whose shadow root is t
  probe       \* one call of a cssUtils function: its arguments and its result

svars == <<dpc, descs, buckets, status, trace, imported, settled, tree>>

vars == <<children, head, net, executed, pc, call, col, hist, injLog, doneLog, ncalls,
          dpc, descs, buckets, status, trace, imported, settled, tree, life, probe>>

Buckets == {"sequential", "async", "defer"}

NoBuckets == [b \in Buckets |-> <<>>]

NoCall == [id |-> 0, kind |-> "none", target |-> NoTarget, sink |-> "", html |-> ""]

NoCol == [phase |-> "none", idx |-> 0, stack |-> <<>>, lastIndex |-> 0,
          visited |-> {}, fontSet |-> <<>>, pending |-> NoUrl, docBase |-> NoUrl,
          fetched |-> <<>>, returned |-> <<>>]

NoProbe == [f |-> "none"]

NoHist == [steps |-> <<>>, overlapped |-> FALSE, after |-> 0]

Quiet ==
  /\ children = [t \in Targets |-> <<>>]
  /\ head = <<>>
  /\ net = [u \in URLs |-> "unset"]
  /\ executed = {}
  /\ pc = [s \in Slots |-> "idle"]
  /\ call = [s \in Slots |-> NoCall]
  /\ col = [s \in Slots |-> NoCol]
  /\ hist = [s \in Slots |-> NoHist]
  /\ injLog = <<>>
  /\ doneLog = <<>>
  /\ ncalls = 0
  /\ dpc = "idle"
  /\ descs = <<>>
  /\ buckets = NoBuckets
  /\ status = <<>>
  /\ trace = <<>>
  /\ imported = FALSE
  /\ settled = FALSE
  /\ tree = <<>>
  /\ life = [t \in Targets |-> "setup"]

Init == Quiet /\ probe = NoProbe

\* -------------------------------------------------- fontFaceCollector.ts

\* getDocBaseUrl(doc): <base href> resolved against the host's base, else
\* the host's base.
GetDocBaseUrl(doc) ==
  IF doc.base # "" THEN Abs(doc.base, "index") ELSE HostBase

\* Mutant: a rule some sink of the host document holds already is not
\* collected.
SetAddUnlessInHead(set, x) ==
  IF \E i \in 1..Len(set) : set[i] = x THEN set
  ELSE IF \E i \in 1..Len(head) : Includes(head[i].text, x) THEN set
  ELSE Append(set, x)

\* fontSet.add(rule): a Set keeps insertion order and holds a value once.
SetAdd(set, x) ==
  IF \E i \in 1..Len(set) : set[i] = x THEN set ELSE Append(set, x)

RECURSIVE AddBlocks(_, _, _, _)
AddBlocks(set, blocks, k, baseUrl) ==
  IF k > Len(blocks) THEN set
  ELSE The({AddBlocks(added, blocks, k + 1, baseUrl) :
              added \in {SetAdd(set, RebaseUrls(blocks[k], baseUrl))}})

\* processCss(cssRaw, baseUrl) up to its while loop: the comments are
\* stripped, the blocks are added to fontSet and the cursor of the shared
\* regex is reset.
EnterProcessCss(c, cssRaw, baseUrl) ==
  The({[c EXCEPT !.fontSet = The({AddBlocks(c.fontSet, blocks, 1, baseUrl) :
                                    blocks \in {ExtractFontFaceBlocks(css)}}),
                 !.stack = Append(@, [css |-> css, base |-> baseUrl]),
                 !.lastIndex = 0,
                 !.pending = NoUrl] :
        css \in {StripComments(cssRaw)}})

\* Mutant: the URL is not recorded.
MarkVisitedNot(visited, absUrl) == visited

\* visited.add(absUrl)
MarkVisited(visited, absUrl) == visited \cup {absUrl}

\* Mutant: the loop does not test visited.has(absUrl).
RECURSIVE NextImportAny(_, _, _, _)
NextImportAny(css, lastIndex, visited, baseUrl) ==
  The({IF m = 0 THEN 0
       ELSE IF css[m].dir = "" /\ css[m].file = "" THEN NextImportAny(css, m, visited, baseUrl)
       ELSE m :
       m \in {ExecImport(css, lastIndex)}})

\* The while loop of processCss from the cursor on: the position of the
\* first directive that is fetched (its url is not empty and not yet
\* visited), 0 when exec returns null before that.
RECURSIVE NextImport(_, _, _, _)
NextImport(css, lastIndex, visited, baseUrl) ==
  The({IF m = 0 THEN 0
       ELSE IF css[m].dir = "" /\ css[m].file = "" THEN NextImport(css, m, visited, baseUrl)
       ELSE IF ResolveUrl(css[m], baseUrl) \in visited THEN NextImport(css, m, visited, baseUrl)
       ELSE m :
       m \in {ExecImport(css, lastIndex)}})

\* doc.querySelectorAll('link[rel~="stylesheet"][href],
\*                       link[rel="preload"][as="style"][href]')
Selected(l) ==
  /\ l.href.has
  /\ \/ \E i \in 1..Len(l.rel) : l.rel[i] = "stylesheet"
     \/ l.rel = <<"preload">> /\ l.as = "style"

LinkNodes(doc) == SelectSeq(doc.links, Selected)

\* Mutant: the loop over the links does not look at the media attribute.
SkippedWhateverMedia(l) ==
  \/ \E i \in 1..Len(l.rel) : l.rel[i] = "alternate"
  \/ l.disabled
  \/ l.href.dir = "" /\ l.href.file = ""

\* The tests of the for loop over the links that end in `continue` before
\* the href is resolved.
Skipped(l) ==
  \/ \E i \in 1..Len(l.rel) : l.rel[i] = "alternate"
  \/ l.disabled
  \/ l.media # "" /\ MatchMedia(l.media) = "nomatch"
  \/ l.href.dir = "" /\ l.href.file = ""

\* The for loop over the links from index idx on: the index of the first
\* link that is fetched, 0 when the loop ends before that.
RECURSIVE NextLinkAt(_, _, _, _)
NextLinkAt(links, idx, visited, docBase) ==
  IF idx > Len(links) THEN 0
  ELSE IF Skipped(links[idx]) THEN NextLinkAt(links, idx + 1, visited, docBase)
  ELSE IF ResolveUrl(links[idx].href, docBase) \in visited
       THEN NextLinkAt(links, idx + 1, visited, docBase)
  ELSE idx

\* Mutant: visited is one set for all calls, a call starts with what the
\* calls in progress have visited.
NewCollectorSharedVisited(doc) ==
  [NoCol EXCEPT !.phase = "styles", !.idx = 1, !.docBase = GetDocBaseUrl(doc),
                !.visited = UNION {col[o].visited : o \in Slots}]

\* collectFontFaceRulesFromDocument(doc) up to the loop over the style
\* elements: fresh fontSet, visited and regex, and the document's base.
NewCollector(doc) ==
  [NoCol EXCEPT !.phase = "styles", !.idx = 1, !.docBase = GetDocBaseUrl(doc)]

\* `await fetch(absUrl)` is reached: the URL has been marked visited.
AwaitFetch(c, absUrl) ==
  [c EXCEPT !.visited = MarkVisited(@, absUrl),
            !.pending = absUrl,
            !.fetched = Append(@, absUrl)]

\* Mutant: processCss is not awaited in the loop over the style elements,
\* the loop goes on to the next block once the rules of one are collected.
StepStyleNotAwaited(c, doc) ==
  IF c.idx <= Len(doc.styles)
  THEN [pc |-> "style",
        c |-> [EnterProcessCss(c, doc.styles[c.idx], c.docBase) EXCEPT
                 !.stack = c.stack, !.idx = c.idx + 1]]
  ELSE [pc |-> "link", c |-> [c EXCEPT !.phase = "links", !.idx = 1]]

\* One round of the for loop over the style elements: the next style block
\* enters processCss; after the last one the loop over the links begins.
StepStyle(c, doc) ==
  IF c.idx <= Len(doc.styles)
  THEN [pc |-> "scan", c |-> EnterProcessCss(c, doc.styles[c.idx], c.docBase)]
  ELSE [pc |-> "link", c |-> [c EXCEPT !.phase = "links", !.idx = 1]]

\* The while loop of the innermost processCss, until it awaits a fetch or
\* exec returns null and processCss returns to its caller.
StepScan(c) ==
  The({The({IF m # 0
            THEN [pc |-> "fetch",
                  c |-> AwaitFetch([c EXCEPT !.lastIndex = m],
                                   ResolveUrl(top.css[m], top.base))]
            ELSE LET rest == SubSeq(c.stack, 1, Len(c.stack) - 1)
                 IN  [pc |-> IF rest # <<>> THEN "scan"
                             ELSE IF c.phase = "styles" THEN "style" ELSE "link",
                      c |-> [c EXCEPT !.lastIndex = LastIndexAfterNull(top.css),
                                      !.stack = rest,
                                      !.returned = Append(@, [css |-> top.css, base |-> top.base,
                                                              visited |-> c.visited]),
                                      !.idx = IF rest = <<>> THEN @ + 1 ELSE @]] :
            m \in {NextImport(top.css, c.lastIndex, c.visited, top.base)}}) :
        top \in {c.stack[Len(c.stack)]}})

\* The for loop over the link elements, until it awaits a fetch or ends
\* and the collector returns fontSet.
StepLink(c, doc) ==
  The({The({IF i # 0
            THEN [pc |-> "fetch",
                  c |-> AwaitFetch([c EXCEPT !.idx = i],
                                   ResolveUrl(links[i].href, c.docBase))]
            ELSE [pc |-> "inject", c |-> [c EXCEPT !.phase = "done"]] :
            i \in {NextLinkAt(links, c.idx, c.visited, c.docBase)}}) :
        links \in {LinkNodes(doc)}})

\* The collector runs from position p until it is suspended in a fetch or
\* has returned; the awaits of processCss in between do not touch anything
\* another call can see.
RECURSIVE Run(_, _, _)
Run(p, c, doc) ==
  IF p \in {"style", "scan", "link"}
  THEN The({Run(r.pc, r.c, doc) :
              r \in {IF p = "style" THEN StepStyle(c, doc)
                     ELSE IF p = "scan" THEN StepScan(c)
                     ELSE StepLink(c, doc)}})
  ELSE [pc |-> p, c |-> c]

\* Mutant: no try/catch, the failure rejects the collector's promise.
AfterFailureRejects(c, doc) == [pc |-> "rejected", c |-> c]

\* Where the collector goes on after a fetch that gave no text: the while
\* loop of the processCss that asked for it, or the next link.
AfterFailure(c, doc) ==
  The({Run(IF c.stack = <<>> THEN "link" ELSE "scan", on, doc) :
        on \in {[c EXCEPT !.pending = NoUrl, !.idx = IF c.stack = <<>> THEN @ + 1 ELSE @]}})

\* Mutant: the fetched text is processed with the document's base.
AfterTextDocBase(c, doc) ==
  The({Run("scan", entered, doc) : entered \in {EnterProcessCss(c, Sheet(c.pending), c.docBase)}})

\* The fetched text enters processCss with the fetched URL as its base.
AfterText(c, doc) ==
  The({Run("scan", entered, doc) : entered \in {EnterProcessCss(c, Sheet(c.pending), c.pending)}})

\* ---------------------------------------------------------------- actions

InProgress(s) == pc[s] # "idle"

\* A call takes the first slot that holds no call.
FreeSlot(s) == ~InProgress(s) /\ \A o \in Slots : ~InProgress(o) => s = "p" \/ o = "q"

\* The renders on target t that are suspended between their clear and
\* their import.
RendersOn(t) == {o \in Slots : InProgress(o) /\ call[o].kind = "render" /\ call[o].target = t}

\* Mutant: the loop removes nothing.
ClearedNot(kids) == kids

\* while (shadowRoot.firstChild) shadowRoot.removeChild(shadowRoot.firstChild)
Cleared(kids) == <<>>

\* Mutant: doc.body is imported instead of doc.documentElement.
ImportNodeBody(c) ==
  [by |-> c.id, html |-> c.html, root |-> [tag |-> "body", kids |-> <<>>],
   scripts |-> [i \in 1..Len(Parse(c.html).scripts) |-> "inert"]]

\* document.importNode(doc.documentElement, true): a deep copy of the
\* parsed root; its script elements are copies that never ran.
ImportNode(c) ==
  [by |-> c.id, html |-> c.html, root |-> Parse(c.html).root,
   scripts |-> [i \in 1..Len(Parse(c.html).scripts) |-> "inert"]]

\* The parsed document after importNode: importing copies, the document
\* keeps its tree.
DocAfterImport(doc) == doc

\* Mutant: the tree is imported before font resolution is awaited.
BeforeAwaitImports(kids, c) == Append(Cleared(kids), ImportNode(c))

\* The children of the shadow root when render c reaches its await: the
\* root has been cleared, and parsing adds nothing to it.
BeforeAwait(kids, c) == Cleared(kids)

\* Mutant: the scripts of the document are replayed after the import.
RunOnAppendScripts(c) == {Parse(c.html).scripts[i] : i \in 1..Len(Parse(c.html).scripts)}

\* The scripts that run when the imported node is appended to the shadow
\* root: none, a script made by DOMParser does not run when it is inserted.
RunOnAppend(c) == {}

\* doneLog once the call in slot s has resolved, having done `steps`.
Resolved(s, steps) ==
  Append(doneLog, [id |-> call[s].id, kind |-> call[s].kind, target |-> call[s].target,
                   sink |-> call[s].sink, html |-> call[s].html, steps |-> steps,
                   overlapped |-> hist[s].overlapped, after |-> hist[s].after,
                   outcome |-> "fulfilled",
                   doc |-> IF call[s].kind = "render"
                           THEN DocAfterImport(Parse(call[s].html))
                           ELSE Parse(call[s].html)])

\* renderIntoShadowRoot(shadowRoot, html) up to its first suspension: the
\* root is cleared, the html is parsed and font extraction runs until its
\* first await.
RenderIntoShadowRoot(s, t, html) ==
  /\ FreeSlot(s)
  /\ ncalls < MaxCalls
  /\ ncalls' = ncalls + 1
  /\ \E c \in {[id |-> ncalls + 1, kind |-> "render", target |-> t,
                 sink |-> DefaultSink, html |-> html]} :
       /\ children' = [children EXCEPT ![t] = BeforeAwait(@, c)]
       /\ call' = [call EXCEPT ![s] = c]
  /\ \E doc \in {Parse(html)} :
       \E r \in {Run("style", NewCollector(doc), doc)} :
         /\ col' = [col EXCEPT ![s] = r.c]
         /\ pc' = [pc EXCEPT ![s] = r.pc]
  /\ hist' = [o \in Slots |->
                IF o = s
                THEN [steps |-> <<"clear", "parse", "fonts">>,
                      overlapped |-> RendersOn(t) # {}, after |-> Len(doneLog)]
                ELSE IF o \in RendersOn(t)
                     THEN [hist[o] EXCEPT !.overlapped = TRUE]
                     ELSE hist[o]]
  /\ UNCHANGED <<head, net, executed, injLog, doneLog, svars, probe>>

\* renderIntoShadowRoot called on a shadow root by any caller.
StartRender(s, t, html) == RenderIntoShadowRoot(s, t, html) /\ UNCHANGED life

\* renderIntoShadowRoot(shadowRoot, html) with no shadow root (null or
\* undefined): reading shadowRoot.firstChild throws, the promise is
\* rejected and nothing has been touched.
RenderUnavailable(html) ==
  /\ ncalls < MaxCalls
  /\ ncalls' = ncalls + 1
  /\ doneLog' = Append(doneLog,
                  [id |-> ncalls + 1, kind |-> "renderNoTarget", target |-> NoTarget,
                   sink |-> DefaultSink, html |-> html, steps |-> <<>>,
                   overlapped |-> FALSE, after |-> Len(doneLog),
                   outcome |-> "rejected", doc |-> Parse(html)])
  /\ UNCHANGED <<children, head, net, executed, pc, call, col, hist, injLog, svars, life, probe>>

\* extractAndInjectFontFaces(doc, styleElementId) called on its own, up to
\* its first suspension.
StartExtract(s, html, id) ==
  /\ FreeSlot(s)
  /\ ncalls < MaxCalls
  /\ ncalls' = ncalls + 1
  /\ call' = [call EXCEPT ![s] = [id |-> ncalls + 1, kind |-> "extract", target |-> NoTarget,
                                  sink |-> id, html |-> html]]
  /\ \E doc \in {Parse(html)} :
       \E r \in {Run("style", NewCollector(doc), doc)} :
         /\ col' = [col EXCEPT ![s] = r.c]
         /\ pc' = [pc EXCEPT ![s] = r.pc]
  /\ hist' = [hist EXCEPT ![s] = [steps |-> <<"fonts">>, overlapped |-> FALSE,
                                  after |-> Len(doneLog)]]
  /\ UNCHANGED <<children, head, net, executed, injLog, doneLog, svars, life, probe>>

\* `await fetch(absUrl)` settles: it rejects (caught) or the response is
\* not ok (continue), and the collector runs on; or the response is ok and
\* its text is awaited.
FetchSettles(s, outcome) ==
  /\ pc[s] = "fetch"
  /\ \E c \in {col[s]}, doc \in {Parse(call[s].html)} :
       IF outcome \in {"neterr", "notok"}
       THEN /\ net[c.pending] \in {"unset", "fail"}
            /\ net' = [net EXCEPT ![c.pending] = "fail"]
            /\ \E r \in {AfterFailure(c, doc)} :
                 /\ col' = [col EXCEPT ![s] = r.c]
                 /\ pc' = [pc EXCEPT ![s] = r.pc]
       ELSE /\ pc' = [pc EXCEPT ![s] = "text"]
            /\ UNCHANGED <<net, col>>
  /\ UNCHANGED <<children, head, executed, call, hist, injLog, doneLog, ncalls, svars, life, probe>>

\* `await res.text()` settles: it rejects (caught), or the text enters
\* processCss; the collector runs on until its next await.
TextSettles(s, outcome) ==
  /\ pc[s] = "text"
  /\ Len(col[s].stack) < MaxDepth
  /\ \E c \in {col[s]}, doc \in {Parse(call[s].html)} :
       /\ net[c.pending] \in {"unset", IF outcome = "bodyerr" THEN "fail" ELSE "ok"}
       /\ net' = [net EXCEPT ![c.pending] = IF outcome = "bodyerr" THEN "fail" ELSE "ok"]
       /\ \E r \in {IF outcome = "bodyerr" THEN AfterFailure(c, doc) ELSE AfterText(c, doc)} :
            /\ col' = [col EXCEPT ![s] = r.c]
            /\ pc' = [pc EXCEPT ![s] = r.pc]
  /\ UNCHANGED <<children, head, executed, call, hist, injLog, doneLog, ncalls, svars, life, probe>>

\* One entry of injLog: who called injectFontFaces, on which sink, what the
\* sink's text was and which rules were handed over.
Injection(by, id, h, rules) ==
  [by |-> by, id |-> id, rules |-> rules,
   existing |-> IF GetElementById(h, id) = 0 THEN <<>> ELSE h[GetElementById(h, id)].text]

\* Mutant: the injector is called whatever the size of the set.
NonEmptyOrNot(rules) == TRUE

\* rules.size > 0
NonEmpty(rules) == Len(rules) > 0

\* extractAndInjectFontFaces after `await collectFontFaceRulesFromDocument`:
\* a non-empty rule set is injected; a render goes on to its import.
Inject(s) ==
  /\ pc[s] = "inject"
  /\ LET rules == col[s].fontSet
     IN  IF NonEmpty(rules)
         THEN /\ head' = InjectFontFaces(head, rules, call[s].sink)
              /\ injLog' = Append(injLog, Injection(call[s].id, call[s].sink, head, rules))
         ELSE UNCHANGED <<head, injLog>>
  /\ IF call[s].kind = "render"
     THEN /\ pc' = [pc EXCEPT ![s] = "import"]
          /\ col' = [col EXCEPT ![s] = NoCol]
          /\ UNCHANGED <<call, hist, doneLog>>
     ELSE /\ pc' = [pc EXCEPT ![s] = "idle"]
          /\ col' = [col EXCEPT ![s] = NoCol]
          /\ call' = [call EXCEPT ![s] = NoCall]
          /\ hist' = [hist EXCEPT ![s] = NoHist]
          /\ doneLog' = Resolved(s, hist[s].steps)
  /\ UNCHANGED <<children, net, executed, ncalls, svars, life, probe>>

\* renderIntoShadowRoot after `await extractAndInjectFontFaces(doc)`: the
\* parsed root is imported and appended to the shadow root.
Import(s) ==
  /\ pc[s] = "import"
  /\ children' = [children EXCEPT ![call[s].target] = Append(@, ImportNode(call[s]))]
  /\ executed' = executed \cup RunOnAppend(call[s])
  /\ doneLog' = Resolved(s, Append(hist[s].steps, "import"))
  /\ pc' = [pc EXCEPT ![s] = "idle"]
  /\ call' = [call EXCEPT ![s] = NoCall]
  /\ hist' = [hist EXCEPT ![s] = NoHist]
  /\ UNCHANGED <<head, net, col, injLog, ncalls, svars, life, probe>>

\* injectFontFaces(rules, styleElementId) called directly.
CallInjectFontFaces(rules, id) ==
  /\ ncalls < MaxCalls
  /\ ncalls' = ncalls + 1
  /\ head' = InjectFontFaces(head, rules, id)
  /\ injLog' = Append(injLog, Injection(0, id, head, rules))
  /\ UNCHANGED <<children, net, executed, pc, call, col, hist, doneLog, svars, life, probe>>

\* The body of clearShadowRoot(shadowRoot).
RemoveChildren(t) ==
  /\ ncalls < MaxCalls
  /\ ncalls' = ncalls + 1
  /\ children' = [children EXCEPT ![t] = Cleared(@)]
  /\ UNCHANGED <<head, net, executed, pc, call, col, hist, injLog, doneLog, svars, probe>>

\* clearShadowRoot(shadowRoot) called on a shadow root by any caller.
ClearShadowRoot(t) == RemoveChildren(t) /\ UNCHANGED life

\* ----------------------------------------------------- useHtmlRenderer.ts
\* One component per shadow root.  life[t] is "setup" before the mount,
\* "mounted" once onMounted has attached the shadow root and started the
\* render, "bare" once onMounted has returned without a shadow root, and
\* "unmounted" once onBeforeUnmount has run.

\* How onMounted can go: there is no host element, attachShadow throws, or
\* the shadow root is attached.
MountOutcomes == {"nohost", "throws", "attached"}

\* onMounted: without a host element or a shadow root it returns; else it
\* starts render(), which is not awaited.
OnMounted(s, t, html, outcome) ==
  /\ life[t] = "setup"
  /\ IF outcome = "attached"
     THEN /\ life' = [life EXCEPT ![t] = "mounted"]
          /\ RenderIntoShadowRoot(s, t, html)
     ELSE /\ s = "p" /\ html = "plain"
          /\ life' = [life EXCEPT ![t] = "bare"]
          /\ UNCHANGED <<children, head, net, executed, pc, call, col, hist, injLog, doneLog,
                         ncalls, svars, probe>>

\* clear(), returned to the user of the composable: clearShadowRoot when
\* there is a shadow root.
Clear(t) ==
  /\ life[t] = "mounted"
  /\ RemoveChildren(t)
  /\ UNCHANGED life

\* onBeforeUnmount: clear() inside a try block.
OnBeforeUnmount(t) ==
  /\ life[t] \in {"mounted", "bare"}
  /\ life' = [life EXCEPT ![t] = "unmounted"]
  /\ IF life[t] = "mounted"
     THEN RemoveChildren(t)
     ELSE UNCHANGED <<children, head, net, executed, pc, call, col, hist, injLog, doneLog,
                      ncalls, svars, probe>>

\* The steps of the renders in progress.
RenderStep(s) ==
  \/ \E outcome \in FetchOutcomes : FetchSettles(s, outcome)
  \/ \E outcome \in TextOutcomes : TextSettles(s, outcome)
  \/ Inject(s)
  \/ Import(s)

NextMount ==
  \/ \E s \in Slots, t \in Targets, html \in Htmls, outcome \in MountOutcomes :
       OnMounted(s, t, html, outcome)
  \/ \E t \in Targets : Clear(t)
  \/ \E t \in Targets : OnBeforeUnmount(t)
  \/ \E s \in Slots : RenderStep(s)

SpecMount == Init /\ [][NextMount]_vars

\* ------------------------------------------- a document of link elements
\* The calls that go through the collector, made on the document of links.

NextLinks ==
  \/ \E s \in Slots, t \in Targets : StartRender(s, t, LinksHtml)
  \/ \E s \in Slots, id \in SinkIds : StartExtract(s, LinksHtml, id)
  \/ \E s \in Slots : RenderStep(s)

SpecLinks == Init /\ [][NextLinks]_vars

\* --------------------------------------------- the collector by itself
\* extractAndInjectFontFaces called on its own, once or several times, one
\* call after or during another.

NextCollect ==
  \/ \E s \in Slots, html \in Htmls, id \in SinkIds : StartExtract(s, html, id)
  \/ \E s \in Slots, outcome \in FetchOutcomes : FetchSettles(s, outcome)
  \/ \E s \in Slots, outcome \in TextOutcomes : TextSettles(s, outcome)
  \/ \E s \in Slots : Inject(s)

SpecCollect == Init /\ [][NextCollect]_vars

\* ------------------------------------------- cssUtils.ts, called directly
\* One call of a function on an input drawn from a bounded set: probe holds
\* the arguments, and the result once the call has been made.

Alphabet == {FF, LB, RB, Txt("a")}

RECURSIVE TextsUpTo(_)
TextsUpTo(n) ==
  IF n = 0 THEN {<<>>}
  ELSE The({prev \cup {Append(l, k) : l \in {x \in prev : Len(x) = n - 1}, k \in Alphabet}
            : prev \in {TextsUpTo(n - 1)}})

\* url(...) references of every kind rebaseUrls tells apart: unquoted and
\* quoted, relative, parent-relative, with a scheme, protocol-relative and
\* a fragment.
Refs ==
  {UrlQ(q, d, "f") : q \in {"", "dq", "sq"},
                     d \in {"", "..", "data:", "blob:", "h", "//", "#", "ftp:"}}

RECURSIVE RefsUpTo(_)
RefsUpTo(n) ==
  IF n = 0 THEN {<<>>}
  ELSE The({prev \cup {Append(l, k) : l \in {x \in prev : Len(x) = n - 1}, k \in Refs}
            : prev \in {RefsUpTo(n - 1)}})

\* A base URL, and a base that is no absolute URL.
Bases == {Abs("s/css", "x"), NoUrl}

\* A second style block of the document, whole.
LaterSources == {<<FF, LB, Url("", "f"), RB>>, <<Cmt, FF, LB, RB, FF, LB, Txt("b"), RB>>}

ProbeOf(f, css, base) == [f |-> f, css |-> css, base |-> base, out |-> <<>>, done |-> FALSE]

Probes ==
  {ProbeOf("extract", <<css>>, NoUrl) : css \in TextsUpTo(MaxLen)}
  \cup {ProbeOf("styles", <<css, later>>, HostBase) :
          css \in TextsUpTo(MaxLen - 2), later \in LaterSources}
  \cup {ProbeOf("rebase", <<(<<FF, LB>> \o refs) \o <<RB>> >>, base) :
          refs \in RefsUpTo(MaxRefs), base \in Bases}

InitCss == Quiet /\ probe \in Probes

\* extractFontFaceBlocks(css)
CallExtractFontFaceBlocks ==
  /\ probe.f = "extract" /\ ~probe.done
  /\ probe' = [probe EXCEPT !.out = ExtractFontFaceBlocks(probe.css[1]), !.done = TRUE]
  /\ UNCHANGED <<children, head, net, executed, pc, call, col, hist, injLog, doneLog, ncalls,
                 svars, life>>

\* The for loop over the style elements of a document of two style blocks
\* without @import: processCss adds the rebased blocks of each to fontSet.
CallProcessStyles ==
  /\ probe.f = "styles" /\ ~probe.done
  /\ \E first \in {EnterProcessCss(NoCol, probe.css[1], probe.base)} :
       \E second \in {EnterProcessCss(first, probe.css[2], probe.base)} :
         probe' = [probe EXCEPT !.out = second.fontSet, !.done = TRUE]
  /\ UNCHANGED <<children, head, net, executed, pc, call, col, hist, injLog, doneLog, ncalls,
                 svars, life>>

\* rebaseUrls(cssBlock, baseUrl)
CallRebaseUrls ==
  /\ probe.f = "rebase" /\ ~probe.done
  /\ probe' = [probe EXCEPT !.out = RebaseUrls(probe.css[1], probe.base), !.done = TRUE]
  /\ UNCHANGED <<children, head, net, executed, pc, call, col, hist, injLog, doneLog, ncalls,
                 svars, life>>

NextCss == CallExtractFontFaceBlocks \/ CallProcessStyles \/ CallRebaseUrls

SpecCss == InitCss /\ [][NextCss]_vars

\* ------------------------------------------------------ directRenderer.ts
\* The script-enabled render: renderDirectly with the extraction and replay
\* of scripts.  A descriptor carries the flags of IScriptMeta; a document is
\* the sequence of its script elements in source order.

Descriptors == [isModule : BOOLEAN, isAsync : BOOLEAN, isDefer : BOOLEAN, hasSrc : BOOLEAN]

RECURSIVE ListsUpTo(_)
ListsUpTo(n) ==
  IF n = 0 THEN {<<>>}
  ELSE The({prev \cup {Append(l, d) : l \in {x \in prev : Len(x) = n - 1}, d \in Descriptors}
            : prev \in {ListsUpTo(n - 1)}})

ScriptLists == ListsUpTo(MaxScripts)

SignalOutcomes == {"load", "error"}

\* The classification of one descriptor, in its priority order.
BucketAsyncFirst(meta) ==
  IF meta.isAsync THEN "async"
  ELSE IF meta.isModule \/ meta.isDefer THEN "defer"
  ELSE "sequential"

Bucket(meta) ==
  IF meta.isModule THEN "defer"
  ELSE IF meta.isAsync THEN "async"
  ELSE IF meta.isDefer THEN "defer"
  ELSE "sequential"

RECURSIVE PositionsIn(_, _, _)
PositionsIn(metas, b, i) ==
  IF i > Len(metas) THEN <<>>
  ELSE (IF Bucket(metas[i]) = b THEN <<i>> ELSE <<>>) \o PositionsIn(metas, b, i + 1)

\* The three ordered buckets of a descriptor list.
Partition(metas) ==
  [b \in Buckets |-> PositionsIn(metas, b, 1)]

\* The buckets whose replays the orchestrator awaits.
WaitsForAll(b) == TRUE

WaitsForDeferOnly(b) == b = "defer"

WaitsFor(b) == b \in {"sequential", "defer"}

\* The position the orchestrator moves to when it leaves position p.
NextPhaseNoFlush(p) ==
  CASE p = "sequential" -> "async"
    [] p = "async" -> "defer"
    [] p = "flush" -> "defer"
    [] p = "defer" -> "done"

NextPhase(p) ==
  CASE p = "sequential" -> "async"
    [] p = "async" -> "flush"
    [] p = "flush" -> "defer"
    [] p = "defer" -> "done"

BucketOf(i) == CHOOSE b \in Buckets : \E k \in DOMAIN buckets[b] : buckets[b][k] = i

\* Mutant: every call returns the same identifier.
UidSame(k) == 1

\* uid(): the k-th identifier made in one render.
Uid(k) == k

\* The script elements of the parsed document, before the extraction.
SourceNodes(metas) == [i \in 1..Len(metas) |-> [kind |-> "source", id |-> 0]]

\* extractScriptsWithPlaceholders: the descriptors, one per script element
\* in source order, each with its identifier.
ExtractScriptsWithPlaceholders(metas) ==
  [i \in 1..Len(metas) |->
     [id |-> Uid(i), isModule |-> metas[i].isModule, isAsync |-> metas[i].isAsync,
      isDefer |-> metas[i].isDefer, hasSrc |-> metas[i].hasSrc]]

\* The tree after the extraction: each script element has been replaced by
\* a placeholder marker that carries the identifier of its descriptor.
Placeholders(metas) == [i \in 1..Len(metas) |-> [kind |-> "marker", id |-> metas[i].id]]

\* findPlaceholderNode(root, id): the position of the first marker with the
\* identifier, 0 when there is none.
FindPlaceholderNode(tr, id) ==
  LET hits == {k \in DOMAIN tr : tr[k].kind = "marker" /\ tr[k].id = id}
  IN  IF hits = {} THEN 0 ELSE CHOOSE k \in hits : \A j \in hits : k <= j

\* How the code of an inline script ends, and the signal of an external one.
RunOutcomes == {"ok", "throw"}

\* A replay the orchestrator is suspended on.
AwaitedLoading ==
  \E i \in DOMAIN status : status[i] = "loading" /\ WaitsFor(BucketOf(i))

\* Mutant: a failure blocks nothing.
BlockedNever(b) == FALSE

\* Mutant: a failure blocks the rest of its bucket, whichever bucket it is.
BlockedAny(b) == \E k \in DOMAIN buckets[b] : status[buckets[b][k]] = "failed"

\* A replay of bucket b that was awaited has failed: the later descriptors
\* of the bucket are not replayed.
Blocked(b) == WaitsFor(b) /\ \E k \in DOMAIN buckets[b] : status[buckets[b][k]] = "failed"

\* The first descriptor of bucket b that is still a placeholder marker; 0 if none.
NextIn(b) ==
  IF \E k \in DOMAIN buckets[b] : status[buckets[b][k]] = "marker"
  THEN buckets[b][CHOOSE k \in DOMAIN buckets[b] :
                    /\ status[buckets[b][k]] = "marker"
                    /\ \A j \in 1..(k - 1) : status[buckets[b][j]] # "marker"]
  ELSE 0

Event(ev, i) == [ev |-> ev, i |-> i, at |-> dpc]

\* renderDirectly up to its first await: the target is cleared, the html is
\* parsed and the font resolution is started.
RenderDirectly(metas) ==
  /\ dpc = "idle"
  /\ dpc' = "fonts"
  /\ descs' = metas
  /\ tree' = SourceNodes(metas)
  /\ UNCHANGED <<children, head, net, executed, pc, call, col, hist, injLog, doneLog, ncalls, life, probe,
                 buckets, status, trace, imported, settled>>

\* The font resolution has ended: the scripts are extracted (every script
\* node becomes a placeholder marker, nothing runs), the tree is imported and
\* the descriptors are partitioned.
FontsResolved ==
  /\ dpc = "fonts"
  /\ \E metas \in {ExtractScriptsWithPlaceholders(descs)} :
       /\ descs' = metas
       /\ tree' = Placeholders(metas)
       /\ buckets' = Partition(metas)
  /\ status' = [i \in DOMAIN descs |-> "marker"]
  /\ imported' = TRUE
  /\ dpc' = "sequential"
  /\ UNCHANGED <<children, head, net, executed, pc, call, col, hist, injLog, doneLog, ncalls, life, probe,
                 trace, settled>>

\* insertScriptAtPlaceholder for descriptor i: the new script takes the
\* place of the marker found by the identifier; an inline script runs on
\* insertion (and may throw), an external one starts loading.
InsertScriptAtPlaceholder(i, outcome) ==
  \E at \in {FindPlaceholderNode(tree, descs[i].id)} :
    IF at = 0
    THEN /\ status' = [status EXCEPT ![i] = "failed"]
         /\ trace' = trace \o <<Event("start", i), Event("end", i)>>
         /\ UNCHANGED <<executed, tree>>
    ELSE /\ tree' = [tree EXCEPT ![at] = [kind |-> "script", id |-> descs[i].id]]
         /\ IF descs[i].hasSrc
            THEN /\ outcome = "ok"
                 /\ status' = [status EXCEPT ![i] = "loading"]
                 /\ trace' = Append(trace, Event("start", i))
                 /\ UNCHANGED executed
            ELSE /\ status' = [status EXCEPT ![i] = IF outcome = "ok" THEN "done" ELSE "failed"]
                 /\ trace' = trace \o <<Event("start", i), Event("end", i)>>
                 /\ executed' = IF outcome = "ok" THEN executed \cup {i} ELSE executed

\* The orchestrator replays the next descriptor of bucket b.
Replay(b, outcome) ==
  /\ dpc = b
  /\ ~AwaitedLoading
  /\ ~Blocked(b)
  /\ NextIn(b) # 0
  /\ InsertScriptAtPlaceholder(NextIn(b), outcome)
  /\ UNCHANGED <<children, head, net, pc, call, col, hist, injLog, doneLog, ncalls, life, probe,
                 dpc, descs, buckets, imported, settled>>

\* The orchestrator leaves a bucket whose replays it has all started, and
\* awaited where it awaits, or whose awaited replay has failed; leaving the
\* defer bucket resolves the promise.
Advance ==
  /\ dpc \in Buckets
  /\ ~AwaitedLoading
  /\ NextIn(dpc) = 0 \/ Blocked(dpc)
  /\ dpc' = NextPhase(dpc)
  /\ UNCHANGED <<children, head, net, executed, pc, call, col, hist, injLog, doneLog, ncalls, life, probe,
                 descs, buckets, status, trace, imported, settled, tree>>

\* The target has flushed its structural update.
Settle ==
  /\ dpc = "flush"
  /\ settled' = TRUE
  /\ dpc' = NextPhase(dpc)
  /\ UNCHANGED <<children, head, net, executed, pc, call, col, hist, injLog, doneLog, ncalls, life, probe,
                 descs, buckets, status, trace, imported, tree>>

\* The load or error signal of the external script i.
Signal(i, outcome) ==
  /\ i \in DOMAIN status
  /\ status[i] = "loading"
  /\ status' = [status EXCEPT ![i] = IF outcome = "load" THEN "done" ELSE "failed"]
  /\ trace' = Append(trace, Event("end", i))
  /\ executed' = IF outcome = "load" THEN executed \cup {i} ELSE executed
  /\ UNCHANGED <<children, head, net, pc, call, col, hist, injLog, doneLog, ncalls, life, probe,
                 dpc, descs, buckets, imported, settled, tree>>

NextDirect ==
  \/ \E metas \in ScriptLists : RenderDirectly(metas)
  \/ FontsResolved
  \/ \E b \in Buckets, outcome \in RunOutcomes : Replay(b, outcome)
  \/ Advance
  \/ Settle
  \/ \E i \in 1..MaxScripts, outcome \in SignalOutcomes : Signal(i, outcome)

SpecDirect == Init /\ [][NextDirect]_vars

Next ==
  \/ \E s \in Slots, t \in Targets, html \in Htmls : StartRender(s, t, html)
  \/ \E s \in Slots, html \in Htmls, id \in SinkIds : StartExtract(s, html, id)
  \/ \E s \in Slots, outcome \in FetchOutcomes : FetchSettles(s, outcome)
  \/ \E s \in Slots, outcome \in TextOutcomes : TextSettles(s, outcome)
  \/ \E s \in Slots : Inject(s)
  \/ \E s \in Slots : Import(s)
  \/ \E rules \in DirectRules, id \in SinkIds : CallInjectFontFaces(rules, id)
  \/ \E t \in Targets : ClearShadowRoot(t)
  \/ \E html \in Htmls : RenderUnavailable(html)

Spec == Init /\ [][Next]_vars

\* Every fetch and every body read settles.
SpecLive ==
  /\ Init
  /\ [][Next]_vars
  /\ \A s \in Slots : WF_vars(\E outcome \in FetchOutcomes : FetchSettles(s, outcome))
  /\ \A s \in Slots : WF_vars(\E outcome \in TextOutcomes : TextSettles(s, outcome))

\* ----------------------------------------------------------------- claims

IsPrefix(a, b) == Len(a) <= Len(b) /\ SubSeq(b, 1, Len(a)) = a

\* The calls that go through extractAndInjectFontFaces.
Extracting == {"render", "extract"}

\* The step in which the call in slot s imports its tree and resolves.
ImportStep(s) == pc[s] = "import" /\ pc'[s] = "idle"

\* The step in which the call in slot s gets past the injector.
InjectStep(s) == pc[s] = "inject" /\ pc'[s] # "inject"

\* The rules an injectFontFaces call appended.
AppendedRules(e) ==
  {e.rules[k] : k \in {j \in 1..Len(e.rules) :
      AppendedAfter(e.existing, e.rules, j) # AppendedAfter(e.existing, e.rules, j - 1)}}

\* The elements of the head that carry the id.
WithId(id) == {i \in 1..Len(head) : head[i].id = id}

\* No run of the collector reaches the cap on nested processCss calls.
DepthBelowCap == \A s \in Slots : Len(col[s].stack) < MaxDepth

\* C1: when a render that overlapped no other render on its target
\* resolves, the target holds the tree imported by that render and nothing
\* else; in particular no node of a render that resolved before it started.
C1_SecondRenderReplacesFirst ==
  [][\A s \in Slots :
       ImportStep(s) /\ ~hist[s].overlapped
         => /\ children'[call[s].target] # <<>>
            /\ \A i \in 1..Len(children'[call[s].target]) :
                 children'[call[s].target][i].by = call[s].id]_vars

C1_Witness ==
  \E i, j \in 1..Len(doneLog) :
    /\ i < j
    /\ doneLog[i].kind = "render" /\ doneLog[j].kind = "render"
    /\ doneLog[i].target = doneLog[j].target
    /\ doneLog[i].html # doneLog[j].html
    /\ doneLog[j].after >= i
    /\ ~doneLog[j].overlapped
    /\ Len(children[doneLog[j].target]) = 1
    /\ children[doneLog[j].target][1].by = doneLog[j].id

C3_SecondExtractionAddsNothing ==
  [][\A s \in Slots :
       (/\ InjectStep(s)
        /\ \E i \in 1..Len(doneLog) :
             /\ doneLog[i].kind \in Extracting
             /\ doneLog[i].html = call[s].html
             /\ doneLog[i].sink = call[s].sink)
         => head' = head]_vars

C3_Witness ==
  \E i, j \in 1..Len(doneLog) :
    /\ i < j
    /\ doneLog[j].after >= i
    /\ doneLog[i].html = doneLog[j].html
    /\ doneLog[i].sink = doneLog[j].sink
    /\ \E a, b \in 1..Len(injLog) :
         /\ injLog[a].by = doneLog[i].id
         /\ injLog[b].by = doneLog[j].id
         /\ AppendedRules(injLog[a]) # {}
         /\ Len(injLog[b].rules) > 0

\* C4: the fetches of one collector call are of pairwise different URLs.
C4_FetchedAtMostOnce ==
  \A s \in Slots : \A i, j \in 1..Len(col[s].fetched) :
    col[s].fetched[i] = col[s].fetched[j] => i = j

\* The collector has returned after fetching h/c, h/b and s/a in this
\* order: h/c is the href of two links and an import of h/b, s/a imports
\* itself and h/b, which it was imported by.
C4_Witness ==
  \E s \in Slots :
    /\ pc[s] = "inject"
    /\ net[Abs("s", "a")] = "ok"
    /\ col[s].fetched = <<Abs("s", "a"), Abs("h", "b"), Abs("h", "c")>>

\* C5: with every fetch and every body read settling, a collector that is
\* waiting for one returns in the end.
C5_CollectorTerminates ==
  \A s \in Slots : (pc[s] \in {"fetch", "text"}) ~> (pc[s] = "inject")

\* The collector has returned after going round the import cycle
\* s/a -> h/b -> s/a and through the self-import of s/a.
C5_Witness ==
  /\ pc["p"] = "inject"
  /\ net[Abs("s", "a")] = "ok"
  /\ net[Abs("h", "b")] = "ok"
  /\ {Abs("s", "a"), Abs("h", "b")} \subseteq col["p"].visited

\* What the collector of slot s has gone through: the style blocks and the
\* sheets it fetched, each with its base.
Sources(s) ==
  LET doc == Parse(call[s].html)
  IN  {[css |-> StripComments(doc.styles[i]), base |-> col[s].docBase] :
         i \in 1..Len(doc.styles)}
      \cup {[css |-> StripComments(Sheet(u)), base |-> u] :
              u \in {v \in col[s].visited : net[v] = "ok"}}

\* C6: the collector is never rejected, and when it returns every fetch it
\* made has settled, every @import of every source it went through and
\* every eligible link has been fetched, whatever failed on the way.
C6_FailuresAreSkipped ==
  \A s \in Slots :
    /\ pc[s] # "rejected"
    /\ pc[s] = "inject" =>
         /\ \A u \in col[s].visited : net[u] # "unset"
         /\ \A src \in Sources(s) : \A m \in 1..Len(src.css) :
              (src.css[m].t = "@import" /\ ~(src.css[m].dir = "" /\ src.css[m].file = ""))
                => ResolveUrl(src.css[m], src.base) \in col[s].visited
         /\ LET links == LinkNodes(Parse(call[s].html))
            IN  \A i \in 1..Len(links) :
                  ~Skipped(links[i]) => ResolveUrl(links[i].href, col[s].docBase) \in col[s].visited

C6_Witness ==
  \E s \in Slots :
    /\ pc[s] = "inject"
    /\ \E i, j \in 1..Len(col[s].fetched) :
         i < j /\ net[col[s].fetched[i]] = "fail" /\ net[col[s].fetched[j]] = "ok"

\* C7: a rule is appended only if the sink's text at the moment the rule
\* is considered, the rules appended before it in the same call included,
\* does not contain the rule.
C7_AppendOnlyIfAbsent ==
  \A n \in 1..Len(injLog) :
    LET e == injLog[n]
    IN  \A k \in 1..Len(e.rules) :
          AppendedAfter(e.existing, e.rules, k) # AppendedAfter(e.existing, e.rules, k - 1)
            => ~Includes(WriteText(e.existing, AppendedAfter(e.existing, e.rules, k - 1)),
                         e.rules[k])

\* C8: no rule is appended to one sink by two different
\* extractAndInjectFontFaces calls, however the calls interleave.
C8_RuleAppendedOnce ==
  \A a, b \in 1..Len(injLog) :
    (a < b /\ injLog[a].by # 0 /\ injLog[b].by # 0 /\ injLog[a].id = injLog[b].id)
      => AppendedRules(injLog[a]) \cap AppendedRules(injLog[b]) = {}

\* Two renders were both suspended in their collectors, both collected a
\* rule, the first to return appended it and the second has been through
\* the injector as well.
C8_Witness ==
  /\ Len(injLog) = 2
  /\ injLog[1].by # 0 /\ injLog[2].by # 0 /\ injLog[1].by # injLog[2].by
  /\ injLog[1].id = injLog[2].id
  /\ \E r \in AppendedRules(injLog[1]) : \E k \in 1..Len(injLog[2].rules) : injLog[2].rules[k] = r
  /\ \E s \in Slots : call[s].id = injLog[2].by /\ hist[s].overlapped /\ pc[s] = "import"

\* C9: no step removes an element of the head or changes its id, and the
\* text of every element before the step is a prefix of its text after it.
C9_SinkAppendOnly ==
  [][/\ Len(head') >= Len(head)
     /\ \A i \in 1..Len(head) :
          head'[i].id = head[i].id /\ IsPrefix(head[i].text, head'[i].text)]_vars

C9_Witness ==
  \E a, b \in 1..Len(injLog) :
    /\ a < b
    /\ injLog[a].id = injLog[b].id
    /\ AppendedRules(injLog[a]) # {}
    /\ AppendedRules(injLog[b]) # {}
    /\ injLog[b].existing # <<>>

\* C10: the head holds one element with a sink id once injectFontFaces has
\* been called with that id, and none before.
C10_OneSinkElement ==
  \A id \in SinkIds :
    Cardinality(WithId(id)) = IF \E n \in 1..Len(injLog) : injLog[n].id = id THEN 1 ELSE 0

\* Two overlapping renders have both called the injector.
C10_Witness ==
  /\ Len(injLog) = 2
  /\ injLog[1].id = injLog[2].id
  /\ injLog[1].by # 0 /\ injLog[2].by # 0
  /\ Cardinality(WithId(injLog[1].id)) = 1
  /\ \E i \in 1..Len(doneLog) : doneLog[i].id = injLog[2].by /\ doneLog[i].overlapped

\* The text of the element with the id in head h, <<>> when there is none.
SinkText(h, id) == IF GetElementById(h, id) = 0 THEN <<>> ELSE h[GetElementById(h, id)].text

\* C11: when extractAndInjectFontFaces gets past the injector, the sink
\* with its id contains every collected rule; when it collected one rule
\* that the sink did not contain, the sink has gained that rule and no
\* other text.
C11_CollectedRulesInSink ==
  [][\A s \in Slots :
       InjectStep(s) =>
         LET rules == col[s].fontSet
             before == SinkText(head, call[s].sink)
         IN  /\ \A k \in 1..Len(rules) :
                  /\ GetElementById(head', call[s].sink) # 0
                  /\ Includes(SinkText(head', call[s].sink), rules[k])
             /\ (Len(rules) = 1 /\ ~Includes(before, rules[1]))
                  => SinkText(head', call[s].sink)
                       = before \o (IF before # <<>> THEN <<NL>> ELSE <<>>) \o rules[1]]_vars

\* The document has been extracted with every fetch failing, so that the
\* one rule of its own is all that was collected, into a sink that held
\* other text: the sink is that text followed by the rule.
C11_Witness ==
  \E n \in 1..Len(injLog) :
    /\ injLog[n].by # 0
    /\ Len(injLog[n].rules) = 1
    /\ injLog[n].existing # <<>>
    /\ ~Includes(injLog[n].existing, injLog[n].rules[1])
    /\ SinkText(head, injLog[n].id) = injLog[n].existing \o <<NL>> \o injLog[n].rules[1]

\* C12: a clearShadowRoot step leaves its target with no child and still
\* in place, and changes neither another target nor the head nor what has
\* run; on a target that is already empty it changes nothing of the page.
C12_ClearRemovesChildrenOnly ==
  [][\A t \in Targets :
       ClearShadowRoot(t) =>
         /\ DOMAIN children' = DOMAIN children
         /\ children'[t] = <<>>
         /\ \A o \in Targets \ {t} : children'[o] = children[o]
         /\ head' = head /\ executed' = executed
         /\ children[t] = <<>> => children' = children]_vars

\* A render has resolved on a target, clearShadowRoot was the only other
\* call, and the target is empty.
C12_Witness ==
  /\ ncalls = 2
  /\ Len(doneLog) = 1 /\ doneLog[1].kind = "render"
  /\ injLog = <<>>
  /\ \A s \in Slots : pc[s] = "idle"
  /\ children[doneLog[1].target] = <<>>

\* No render on target t has overlapped another render on t.
NeverOverlapped(t) ==
  /\ \A s \in Slots : (call[s].kind = "render" /\ call[s].target = t) => ~hist[s].overlapped
  /\ \A i \in 1..Len(doneLog) :
       (doneLog[i].kind = "render" /\ doneLog[i].target = t) => ~doneLog[i].overlapped

\* C13: while a render that overlaps no other render on its target is
\* between its clearing and its import, the target has no child; a target
\* on which no renders overlapped is empty or holds one imported tree.
C13_EmptyUntilImport ==
  /\ \A s \in Slots :
       (call[s].kind = "render" /\ ~hist[s].overlapped) => children[call[s].target] = <<>>
  /\ \A t \in Targets : NeverOverlapped(t) => Len(children[t]) <= 1

\* A second render on a target that held the tree of a first one has
\* finished its font resolution and not yet imported: the target is empty.
C13_Witness ==
  \E s \in Slots :
    /\ pc[s] = "import"
    /\ ~hist[s].overlapped
    /\ ncalls = 2
    /\ Len(doneLog) = 1
    /\ doneLog[1].kind = "render" /\ doneLog[1].target = call[s].target
    /\ children[call[s].target] = <<>>

\* The steps of a render, in order.
RenderSteps == <<"clear", "parse", "fonts", "import">>

\* C14: a tree in a target was put there by a render that has resolved
\* after doing clear, parse, font resolution and import in this order: no
\* render still waiting for a fetch, for a body or for its injection has a
\* tree in any target, and the injection of a render that collected rules
\* is on record.
C14_ImportAfterFonts ==
  /\ \A s \in Slots :
       call[s].kind = "render" =>
         /\ IsPrefix(hist[s].steps, RenderSteps)
         /\ \A t \in Targets : \A i \in 1..Len(children[t]) : children[t][i].by # call[s].id
  /\ \A t \in Targets : \A i \in 1..Len(children[t]) :
       /\ \E d \in 1..Len(doneLog) :
            doneLog[d].id = children[t][i].by /\ doneLog[d].steps = RenderSteps
       /\ Parse(children[t][i].html).styles # <<>>
            => \E n \in 1..Len(injLog) : injLog[n].by = children[t][i].by

\* One render has imported its tree after its three fetches settled and its
\* rules were injected, while another render is still waiting for a fetch
\* and has no tree anywhere.
C14_Witness ==
  \E s \in Slots, t \in Targets :
    /\ pc[s] = "fetch"
    /\ call[s].kind = "render"
    /\ Len(children[t]) = 1
    /\ children[t][1].html = "fonts"
    /\ \E n \in 1..Len(injLog) : injLog[n].by = children[t][1].by
    /\ \A u \in {Abs("s", "a"), Abs("h", "b"), Abs("h", "c")} : net[u] # "unset"

\* C15: when a render that overlapped no other render on its target
\* resolves, the target has one child, a copy of the root of the parsed
\* document: an html element with a head and a body, whether or not the
\* input wrote these tags; the parsed document still has its root.
C15_OneDeepCopyOfRoot ==
  [][\A s \in Slots :
       ImportStep(s) /\ ~hist[s].overlapped
         => LET kids == children'[call[s].target]
            IN  /\ Len(kids) = 1
                /\ kids[1].root = [tag |-> "html", kids |-> <<"head", "body">>]
                /\ kids[1].root = doneLog'[Len(doneLog')].doc.root]_vars

\* A render of an input without html, head and body tags has resolved
\* without overlapping another and its tree is the child of the target.
C15_Witness ==
  \E d \in 1..Len(doneLog) :
    /\ doneLog[d].kind = "render"
    /\ ~doneLog[d].overlapped
    /\ ~Wrapped(doneLog[d].html)
    /\ Len(children[doneLog[d].target]) = 1
    /\ children[doneLog[d].target][1].by = doneLog[d].id
    /\ children[doneLog[d].target][1].root.kids = <<"head", "body">>

Partitioned == dpc \notin {"idle", "fonts"}

\* The positions of bucket b, as a set.
Members(b) == {buckets[b][k] : k \in DOMAIN buckets[b]}

\* C20: once the descriptors are partitioned, every descriptor is in exactly
\* one bucket and at one place of it; a module is in the defer bucket
\* whatever its other flags, a non-module async descriptor in the async
\* bucket, a non-module non-async defer descriptor in the defer bucket and
\* every other one in the sequential bucket; each bucket lists its
\* descriptors in source order.
C20_OneBucketByPriority ==
  Partitioned =>
    /\ \A i \in DOMAIN descs :
         /\ Cardinality({b \in Buckets : i \in Members(b)}) = 1
         /\ descs[i].isModule => i \in Members("defer")
         /\ ~descs[i].isModule /\ descs[i].isAsync => i \in Members("async")
         /\ ~descs[i].isModule /\ ~descs[i].isAsync /\ descs[i].isDefer => i \in Members("defer")
         /\ ~descs[i].isModule /\ ~descs[i].isAsync /\ ~descs[i].isDefer => i \in Members("sequential")
    /\ \A b \in Buckets :
         /\ Members(b) \subseteq DOMAIN descs
         /\ \A j, k \in DOMAIN buckets[b] : j < k => buckets[b][j] < buckets[b][k]

\* A module that is also marked async was placed first in the defer bucket,
\* before a script marked defer only.
C20_Witness ==
  /\ Partitioned
  /\ Len(descs) = 2
  /\ descs[1].isModule /\ descs[1].isAsync
  /\ ~descs[2].isModule /\ ~descs[2].isAsync /\ descs[2].isDefer
  /\ buckets["defer"] = <<1, 2>>

\* The place of the event ev of descriptor i in the trace; 0 if it has not
\* happened.
Place(ev, i) ==
  IF \E n \in DOMAIN trace : trace[n].ev = ev /\ trace[n].i = i
  THEN CHOOSE n \in DOMAIN trace : trace[n].ev = ev /\ trace[n].i = i
  ELSE 0

\* The replays of bucket b happen one after the other, in source order: a
\* later descriptor has started only if every earlier one has ended before.
OneAtATime(b) ==
  /\ \A i, j \in Members(b) :
       i < j /\ Place("start", j) # 0 =>
         /\ Place("start", i) # 0
         /\ Place("end", i) # 0
         /\ Place("start", i) < Place("end", i)
         /\ Place("end", i) < Place("start", j)
  /\ Cardinality({i \in Members(b) : status[i] = "loading"}) <= 1

\* C17: the sequential scripts are replayed in source order and one at a
\* time: a sequential script has started only after every sequential script
\* before it in the source has started and ended (an external one by its load
\* or its error signal), and at most one of them is loading at any time.
C17_SequentialOneAtATime == OneAtATime("sequential")

\* Two sequential scripts, the first external: only after its load signal
\* was the second replayed.
C17_Witness ==
  /\ Len(descs) = 2
  /\ buckets["sequential"] = <<1, 2>>
  /\ descs[1].hasSrc /\ ~descs[2].hasSrc
  /\ 1 \in executed /\ 2 \in executed
  /\ Place("start", 1) = 1 /\ Place("end", 1) = 2 /\ Place("start", 2) = 3

\* C18: a script of the defer bucket (marked defer, or a module) has been
\* replayed only if the parsed tree is imported and the target has flushed
\* its update; the scripts of the defer bucket are replayed in source order,
\* each one ended before the next starts.
C18_DeferAfterSettled ==
  /\ \A i \in DOMAIN status :
       (descs[i].isModule \/ (descs[i].isDefer /\ ~descs[i].isAsync)) /\ status[i] # "marker" =>
         imported /\ settled
  /\ OneAtATime("defer")

\* An external module and a script marked defer: the module was replayed
\* after the target had settled, and the other one after the module's load
\* signal.
C18_Witness ==
  /\ Len(descs) = 2
  /\ descs[1].isModule /\ descs[1].hasSrc
  /\ ~descs[2].isModule /\ descs[2].isDefer /\ ~descs[2].isAsync
  /\ imported /\ settled
  /\ 1 \in executed
  /\ Place("start", 1) = 1 /\ Place("end", 1) = 2 /\ Place("start", 2) = 3

\* The next step of the script-enabled render itself: a replay, the end of
\* a bucket, or the flush of the target.
OrchestratorStep ==
  (\E b \in Buckets, outcome \in RunOutcomes : Replay(b, outcome)) \/ Advance \/ Settle

\* A script of the async bucket is loading.
AsyncLoading ==
  \E i \in DOMAIN status : status[i] = "loading" /\ descs[i].isAsync /\ ~descs[i].isModule

\* A script of the sequential or of the defer bucket is loading.
OtherLoading ==
  \E i \in DOMAIN status : status[i] = "loading" /\ ~(descs[i].isAsync /\ ~descs[i].isModule)

\* C19: from the async bucket on, the render can take its next step (start
\* the next async script, leave the async bucket, flush, start the next
\* defer script, resolve) whenever no sequential or defer script is
\* loading, whatever async scripts are still loading.
C19_AsyncNeverAwaited ==
  dpc \in {"async", "flush", "defer"} /\ ~OtherLoading => ENABLED OrchestratorStep

\* The render has resolved and its defer script has run while the external
\* async script before it is still loading.
C19_Witness ==
  /\ dpc = "done"
  /\ Len(descs) = 2
  /\ buckets["async"] = <<1>> /\ buckets["defer"] = <<2>>
  /\ status[1] = "loading" /\ status[2] = "done"
  /\ AsyncLoading
  /\ Place("start", 1) = 1 /\ Place("start", 2) = 2 /\ Place("end", 1) = 0

\* The markers of the tree that carry the identifier id.
MarkersOf(id) == {k \in DOMAIN tree : tree[k].kind = "marker" /\ tree[k].id = id}

\* The places of the trace where the replay of descriptor i starts.
Starts(i) == {n \in DOMAIN trace : trace[n].ev = "start" /\ trace[n].i = i}

NoneFailed == \A i \in DOMAIN status : status[i] # "failed"

\* C21: nothing runs before the first replay; from the extraction on the
\* descriptors have pairwise distinct identifiers, the tree holds one node
\* per descriptor and exactly one marker for each descriptor that is not yet
\* replayed and none for the others, and a replay starts at most once; when
\* the render has resolved and no script has failed, every descriptor was
\* replayed exactly once and no marker is left.
C21_OneMarkerPerDescriptor ==
  /\ trace = <<>> => executed = {}
  /\ Partitioned =>
       /\ \A i, j \in DOMAIN descs : i # j => descs[i].id # descs[j].id
       /\ Len(tree) = Len(descs)
       /\ \A i \in DOMAIN descs :
            /\ Cardinality(MarkersOf(descs[i].id)) = IF status[i] = "marker" THEN 1 ELSE 0
            /\ Cardinality(Starts(i)) = IF status[i] = "marker" THEN 0 ELSE 1
  /\ dpc = "done" /\ NoneFailed =>
       /\ \A i \in DOMAIN descs : Cardinality(Starts(i)) = 1
       /\ \A k \in DOMAIN tree : tree[k].kind = "script"

\* A render of two scripts has resolved, both have run and both markers
\* have been replaced.
C21_Witness ==
  /\ dpc = "done"
  /\ Len(descs) = 2
  /\ executed = {1, 2}
  /\ tree = <<[kind |-> "script", id |-> descs[1].id], [kind |-> "script", id |-> descs[2].id]>>
  /\ Len(trace) = 4

\* Every descriptor of bucket b has been replayed, except those that come
\* after a failed one where a failure blocks the rest of the bucket.
ReplayedAll(b) ==
  \A i \in Members(b) :
    status[i] = "marker" =>
      b # "async" /\ \E j \in Members(b) : j < i /\ status[j] = "failed"

SequentialFailed == \E i \in Members("sequential") : status[i] = "failed"

\* C22: once a sequential script has failed no later sequential script is
\* replayed; the render is not stopped by it (it can leave the sequential
\* bucket as soon as it waits for no load), and when it has resolved every
\* async script has been replayed and the defer bucket has been replayed up
\* to its own first failure.
C22_SequentialFailureBlocksOwnBucket ==
  /\ \A i, j \in Members("sequential") :
       i < j /\ status[i] = "failed" => status[j] = "marker"
  /\ SequentialFailed /\ dpc = "sequential" /\ ~OtherLoading => ENABLED Advance
  /\ SequentialFailed /\ dpc \in {"async", "flush", "defer"} /\ ~OtherLoading =>
       ENABLED OrchestratorStep
  /\ SequentialFailed /\ dpc = "done" => ReplayedAll("async") /\ ReplayedAll("defer")

\* The sequential script threw and the defer script after it has run; the
\* render has resolved.
C22_Witness ==
  /\ dpc = "done"
  /\ Len(descs) = 2
  /\ buckets["sequential"] = <<1>> /\ buckets["defer"] = <<2>>
  /\ status[1] = "failed" /\ ~descs[1].hasSrc
  /\ status[2] = "done" /\ 2 \in executed /\ 1 \notin executed

AsyncFailed == \E i \in Members("async") : status[i] = "failed"

\* C23: whatever async scripts have failed, the render can start the next
\* async script, and once it has left the async bucket every async script
\* has been replayed; a failed async script does not stop the render, and
\* when the render has resolved the defer bucket has been replayed up to
\* its own first failure.
C23_AsyncFailureBlocksNothing ==
  /\ dpc = "async" /\ NextIn("async") # 0 => ENABLED Replay("async", "ok")
  /\ dpc \in {"flush", "defer", "done"} => \A i \in Members("async") : status[i] # "marker"
  /\ AsyncFailed /\ dpc \in {"async", "flush", "defer"} /\ ~OtherLoading =>
       ENABLED OrchestratorStep
  /\ AsyncFailed /\ dpc = "done" => ReplayedAll("defer")

\* The first async script threw and the async script after it has run.
C23_Witness ==
  /\ Len(descs) = 2
  /\ buckets["async"] = <<1, 2>>
  /\ status[1] = "failed" /\ ~descs[1].hasSrc
  /\ status[2] = "done" /\ executed = {2}

\* The renders on record that a component started on mount.
MountRenders ==
  {d \in 1..Len(doneLog) :
     doneLog[d].kind = "render" /\ life[doneLog[d].target] # "setup"}

\* C24 (as claimed): the render a component performs on mount executes the
\* scripts of its html: once the render has resolved, every script of the
\* parsed document has run and the imported tree holds no script that
\* never ran.  The mount-time render is renderIntoShadowRoot, which runs
\* none, so this does not hold.
C24_MountRunsScripts ==
  \A d \in MountRenders :
    /\ \A i \in 1..Len(doneLog[d].doc.scripts) : doneLog[d].doc.scripts[i] \in executed
    /\ \A t \in Targets : \A k \in 1..Len(children[t]) :
         children[t][k].by = doneLog[d].id =>
           \A i \in 1..Len(children[t][k].scripts) : children[t][k].scripts[i] # "inert"

\* C25 (as claimed): once onBeforeUnmount has run, the shadow root of the
\* component has no children.  A render that was suspended in its font
\* resolution when the component was unmounted appends its tree
\* afterwards, so this does not hold.
C25_EmptyAfterUnmount ==
  \A t \in Targets : life[t] = "unmounted" => children[t] = <<>>

\* The @import directives of a source that name a url.
Imports(css) == {m \in DOMAIN css : css[m].t = "@import" /\ ~(css[m].dir = "" /\ css[m].file = "")}

\* C26: when processCss returns from a source, the target of every @import
\* directive of the source has been marked visited (it was fetched by this
\* loop, or found visited), whatever nested processCss calls have moved
\* the cursor of the shared regex in between.
C26_NoImportSkipped ==
  \A s \in Slots : \A k \in 1..Len(col[s].returned) :
    \A m \in Imports(col[s].returned[k].css) :
      ResolveUrl(col[s].returned[k].css[m], col[s].returned[k].base)
        \in col[s].returned[k].visited

\* processCss has returned from the first style block of the document: its
\* first import (s/a) was fetched and processed, the fetch of h/b that s/a
\* asked for failed, and h/c, the last import of the block, was fetched
\* after the nested call had returned.
C26_Witness ==
  \E s \in Slots :
    /\ net[Abs("s", "a")] = "ok" /\ net[Abs("h", "b")] = "fail"
    /\ col[s].fetched = <<Abs("s", "a"), Abs("h", "b"), Abs("h", "c")>>
    /\ \E k \in 1..Len(col[s].returned) :
         /\ col[s].returned[k].base = Abs("s", "index")
         /\ Cardinality(Imports(col[s].returned[k].css)) = 2
         /\ \E j \in 1..(k - 1) : col[s].returned[j].base = Abs("s", "a")

\* C27 (as claimed): when two renders on the same target have resolved and
\* no call was made after the later one started, the target holds exactly
\* one tree, the one of the render that started last.  Two renders that
\* overlap both clear the target before either imports, and both append,
\* so this does not hold.
C27_LastRenderWins ==
  \A i, j \in 1..Len(doneLog) :
    /\ doneLog[i].kind = "render" /\ doneLog[j].kind = "render"
    /\ doneLog[i].target = doneLog[j].target
    /\ doneLog[i].id < doneLog[j].id
    /\ doneLog[j].id = ncalls
    => /\ Len(children[doneLog[j].target]) = 1
       /\ children[doneLog[j].target][1].by = doneLog[j].id

\* C30: rebaseUrls rewrites each url(...) reference of a block on its own:
\* everything that is no reference stays as it is, the quote of a reference
\* is kept, a target starting with data:, blob:, http:, https:, // or # is
\* left unchanged, and every other target becomes its resolution against the
\* base, or stays as written when the resolution fails.
C30_RebaseUrlsPerReference ==
  (probe.f = "rebase" /\ probe.done) =>
    /\ Len(probe.out) = Len(probe.css[1])
    /\ \A i \in 1..Len(probe.css[1]) :
         LET ref == probe.css[1][i]
             res == probe.out[i]
         IN  IF ref.t # "url" THEN res = ref
             ELSE /\ res.t = "url"
                  /\ res.q = ref.q
                  /\ Abs(res.dir, res.file) =
                       IF ref.dir \in {"data:", "blob:", "h", "s", "s/css", "//", "#"}
                       THEN Abs(ref.dir, ref.file)
                       ELSE IF NewUrl(ref, probe.base).ok
                       THEN NewUrl(ref, probe.base).url
                       ELSE Abs(ref.dir, ref.file)

\* A block with a double-quoted parent-relative reference and a fragment
\* reference was rebased against a stylesheet URL: the first now points
\* into the directory above the stylesheet, still double-quoted, and the
\* second is as it was.
C30_Witness ==
  /\ probe.f = "rebase" /\ probe.done
  /\ probe.base = Abs("s/css", "x")
  /\ probe.css[1] = <<FF, LB, UrlQ("dq", "..", "f"), UrlQ("", "#", "f"), RB>>
  /\ probe.out = <<FF, LB, UrlQ("dq", "s", "f"), UrlQ("", "#", "f"), RB>>

\* How many tokens t lie at the positions a..e of a source.
Count(css, t, a, e) == Cardinality({i \in a..e : css[i].t = t})

\* Where the block of the @font-face at p closes: the first position behind
\* the first "{" after p at which as many "}" as "{" have been read from
\* that "{" on; 0 when p has no "{" after it or the braces never even out.
ClosesAt(css, p) ==
  LET o == IndexOf(css, "{", p)
      ends == {e \in (o + 1)..Len(css) : Count(css, "{", o, e) = Count(css, "}", o, e)}
  IN  IF o = 0 \/ ends = {} THEN 0
      ELSE CHOOSE e \in ends : \A x \in ends : e <= x

\* The @font-face occurrences of a source from pos on that lie outside
\* every closed block before them, in order.
RECURSIVE FontFaceStarts(_, _)
FontFaceStarts(css, pos) ==
  LET p == IndexOf(css, "@font-face", pos)
  IN  IF p = 0 THEN <<>>
      ELSE <<p>> \o FontFaceStarts(css, IF ClosesAt(css, p) = 0 THEN p + 1
                                        ELSE ClosesAt(css, p) + 1)

\* The occurrences among them whose block does not close.
OpenBlocks(css) ==
  {k \in DOMAIN FontFaceStarts(css, 1) : ClosesAt(css, FontFaceStarts(css, 1)[k]) = 0}

\* The closed blocks of a source before its first block that does not close.
BlocksBefore(css) ==
  LET starts == FontFaceStarts(css, 1)
      n == IF OpenBlocks(css) = {} THEN Len(starts) + 1
           ELSE CHOOSE k \in OpenBlocks(css) : \A x \in OpenBlocks(css) : k <= x
  IN  [k \in 1..(n - 1) |-> SubSeq(css, starts[k], ClosesAt(css, starts[k]))]

Balanced(b) ==
  /\ Count(b, "{", 1, Len(b)) = Count(b, "}", 1, Len(b))
  /\ \A e \in 1..Len(b) : Count(b, "}", 1, e) <= Count(b, "{", 1, e)

\* The blocks lie in the source in the order given, one behind the other.
InSourceOrder(css, blocks) ==
  \E at \in [DOMAIN blocks -> 1..Len(css)] :
    /\ \A k \in DOMAIN blocks :
         /\ at[k] + Len(blocks[k]) - 1 <= Len(css)
         /\ SubSeq(css, at[k], at[k] + Len(blocks[k]) - 1) = blocks[k]
    /\ \A k \in DOMAIN blocks :
         k + 1 \in DOMAIN blocks => at[k] + Len(blocks[k]) <= at[k + 1]

\* C29: every block extractFontFaceBlocks returns starts with @font-face,
\* ends with "}" and has balanced braces, and the blocks are pieces of the
\* input, in source order and without overlap.
C29_BlocksWellFormed ==
  (probe.f = "extract" /\ probe.done) =>
    /\ \A k \in DOMAIN probe.out :
         /\ Len(probe.out[k]) >= 2
         /\ probe.out[k][1] = FF
         /\ probe.out[k][Len(probe.out[k])] = RB
         /\ Balanced(probe.out[k])
    /\ InSourceOrder(probe.css[1], probe.out)

\* The sequence as a set.
Range(seq) == {seq[i] : i \in DOMAIN seq}

\* The rules of a source whose relative references are resolved against
\* base.
RulesAt(css, base) ==
  {RebaseUrls(b, base) : b \in Range(ExtractFontFaceBlocks(StripComments(css)))}

\* The targets of the @import directives of a source, resolved against
\* base.
ImportsAt(css, base) ==
  {ResolveUrl(StripComments(css)[m], base) : m \in Imports(StripComments(css))}

\* The same for everything the network serves and for the style blocks of
\* every document, computed once.
SheetCss == [u \in URLs |-> StripComments(Sheet(u))]
SheetRules == [u \in URLs |-> RulesAt(Sheet(u), u)]
SheetImports == [u \in URLs |-> ImportsAt(Sheet(u), u)]
Documents == Htmls \cup {LinksHtml}
StyleCss == [h \in Documents |-> {StripComments(Parse(h).styles[i]) : i \in DOMAIN Parse(h).styles}]
StyleRules ==
  [h \in Documents |->
     UNION {RulesAt(Parse(h).styles[i], GetDocBaseUrl(Parse(h))) : i \in DOMAIN Parse(h).styles}]
StyleImports ==
  [h \in Documents |->
     UNION {ImportsAt(Parse(h).styles[i], GetDocBaseUrl(Parse(h))) : i \in DOMAIN Parse(h).styles}]

\* The hrefs of the link elements of every document, resolved against the
\* document's base.
LinkTargets ==
  [h \in Documents |->
     {ResolveUrl(Parse(h).links[i].href, GetDocBaseUrl(Parse(h))) :
        i \in {k \in DOMAIN Parse(h).links : Parse(h).links[k].href.has}}]

\* A source a collector entered with the given base is a style block of
\* the document of h with the document's base, or the text of one of the
\* URLs in got with that URL.
OwnBase(css, base, h, got) ==
  \/ base = GetDocBaseUrl(Parse(h)) /\ css \in StyleCss[h]
  \/ base \in got /\ css = SheetCss[base]

\* C31: a fetched stylesheet is processed with its own absolute URL as the
\* base and an inline style block with the document's base: every source
\* the collector has returned from or is in is a style block with the document's base or
\* the text of a URL it fetched with that URL, every collected rule is a
\* rule of a style block rebased against the document's base or a rule of
\* a fetched sheet rebased against the sheet's URL, and every fetched URL
\* is a link href or a style block's import resolved against the
\* document's base or an import of a fetched sheet resolved against the
\* sheet's URL.
C31_BaseIsTheSourcesUrl ==
  \A s \in Slots :
    (call[s].kind \in Extracting /\ pc[s] \in {"fetch", "text", "inject"}) =>
      \E c \in {col[s]}, h \in {call[s].html} :
        \E got \in {Range(c.fetched)} :
          /\ \A k \in DOMAIN c.returned :
               OwnBase(c.returned[k].css, c.returned[k].base, h, got)
          /\ \A k \in DOMAIN c.stack : OwnBase(c.stack[k].css, c.stack[k].base, h, got)
          /\ \A rule \in Range(c.fontSet) :
               \/ rule \in StyleRules[h]
               \/ \E u \in got : net[u] = "ok" /\ rule \in SheetRules[u]
          /\ \A u \in got :
               \/ u \in StyleImports[h]
               \/ u \in LinkTargets[h]
               \/ \E v \in got : net[v] = "ok" /\ u \in SheetImports[v]

\* The collector has returned from a document whose base is in directory
\* s: h/b.css was reached through the import of s/a.css, its relative
\* url(f) was rebased into directory h, and its relative import of c was
\* fetched from directory h, two levels below the style block.
C31_Witness ==
  \E s \in Slots :
    /\ pc[s] = "inject"
    /\ col[s].docBase = Abs("s", "index")
    /\ col[s].fetched = <<Abs("s", "a"), Abs("h", "b"), Abs("h", "c")>>
    /\ net[Abs("h", "b")] = "ok"
    /\ <<FF, LB, Txt("G"), LB, Url("h", "f"), RB, RB>> \in Range(col[s].fontSet)

\* The link element the link loop of collector c is fetching.
LinkBeingFetched(c, doc) == LinkNodes(doc)[c.idx]

\* C32: the link loop never fetches for a link whose rel contains
\* "alternate", that is disabled, whose media does not match or whose href
\* is empty; and a link without media, or whose media cannot be evaluated,
\* counts as matching: when the collector returns, the stylesheet of every
\* such link that is otherwise eligible has been fetched.
C32_IneligibleLinksNotFetched ==
  \A s \in Slots :
    call[s].kind \in Extracting =>
      \E c \in {col[s]}, doc \in {Parse(call[s].html)} :
        /\ (pc[s] \in {"fetch", "text"} /\ c.phase = "links" /\ c.stack = <<>>) =>
             /\ "alternate" \notin Range(LinkBeingFetched(c, doc).rel)
             /\ ~LinkBeingFetched(c, doc).disabled
             /\ MatchMedia(LinkBeingFetched(c, doc).media) = "nomatch"
                  => LinkBeingFetched(c, doc).media = ""
             /\ LinkBeingFetched(c, doc).href # Href("", "")
        /\ pc[s] = "inject" =>
             \A l \in Range(LinkNodes(doc)) :
               ( /\ l.media = "" \/ MatchMedia(l.media) = "throw"
                 /\ "alternate" \notin Range(l.rel)
                 /\ ~l.disabled
                 /\ l.href # Href("", "") )
               => ResolveUrl(l.href, c.docBase) \in Range(c.fetched)

\* The collector has returned from the document of links: it fetched the
\* sheets of the link whose media matches, of the link whose media cannot
\* be evaluated and of the link without media, then what the last of them
\* imports, and neither s/b.css nor s/c.css, which only skipped links
\* lead to.
C32_Witness ==
  \E s \in Slots :
    /\ pc[s] = "inject"
    /\ call[s].html = LinksHtml
    /\ col[s].fetched = <<Abs("h", "c"), Abs("h", "a"), Abs("h", "b"), Abs("s", "a")>>

\* C33: visited and fontSet are those of one collector call.  Whatever
\* other calls have done or are doing, a call's visited set holds exactly
\* the URLs this call has fetched, every rule it has collected is a rule
\* of a source it went through itself, and when it returns it has itself
\* fetched the target of every @import of every such source.
C33_SetsArePerCall ==
  \A s \in Slots :
    (call[s].kind \in Extracting /\ pc[s] \in {"fetch", "text", "inject"}) =>
      \E c \in {col[s]}, h \in {call[s].html} :
        \E got \in {Range(c.fetched)} :
          /\ c.visited = got
          /\ \A rule \in Range(c.fontSet) :
               \/ rule \in StyleRules[h]
               \/ \E u \in c.visited : net[u] = "ok" /\ rule \in SheetRules[u]
          /\ pc[s] = "inject" =>
               /\ StyleImports[h] \subseteq got
               /\ \A u \in c.visited : net[u] = "ok" => SheetImports[u] \subseteq got

\* Two calls on the same document overlap: one has been through s/a.css
\* and is fetching what it imports, the other is fetching s/a.css itself.
C33_Witness ==
  /\ call["p"].html = "fonts" /\ call["q"].html = "fonts"
  /\ net[Abs("s", "a")] = "ok"
  /\ pc["p"] = "fetch" /\ col["p"].fetched = <<Abs("s", "a"), Abs("h", "b")>>
  /\ pc["q"] = "fetch" /\ col["q"].fetched = <<Abs("s", "a")>>

\* The URLs reached from a set of URLs through the @import directives of
\* the sheets that are served.
RECURSIVE Reached(_)
Reached(from) ==
  LET more == from \cup UNION {SheetImports[u] : u \in {v \in from : net[v] = "ok"}}
  IN  IF more = from THEN from ELSE Reached(more)

\* The rules of the document of h under the outcomes net: those of its style
\* blocks, and those of every served sheet reached from the imports of
\* its style blocks and from the hrefs of its eligible links.
RulesOf(h) ==
  LET base == GetDocBaseUrl(Parse(h))
      eligible == {l \in Range(LinkNodes(Parse(h))) :
                     /\ "alternate" \notin Range(l.rel)
                     /\ ~l.disabled
                     /\ MatchMedia(l.media) = "nomatch" => l.media = ""
                     /\ l.href # Href("", "")}
      first == StyleImports[h] \cup {ResolveUrl(l.href, base) : l \in eligible}
  IN  StyleRules[h] \cup UNION {SheetRules[u] : u \in {v \in Reached(first) : net[v] = "ok"}}

\* The html of the call with the given id.
HtmlOf(id) ==
  IF \E s \in Slots : call[s].id = id
  THEN call[CHOOSE s \in Slots : call[s].id = id].html
  ELSE doneLog[CHOOSE d \in DOMAIN doneLog : doneLog[d].id = id].html

\* C34: the set of rules a collector call returns is determined by the
\* document and by the outcome of each URL: it is the set of the rules of
\* the document under these outcomes, in whatever order the fetches of
\* this and of other calls have settled.
C34_ResultIsAFunctionOfDocAndOutcomes ==
  \A s \in Slots :
    (call[s].kind \in Extracting /\ pc[s] = "inject") =>
      Range(col[s].fontSet) = RulesOf(call[s].html)

\* A second call on the document with styles is about to return the two
\* rules the first call on the same document has injected: h/b.css was
\* served to both, h/c.css to neither.
C34_Witness ==
  \E s \in Slots :
    /\ pc[s] = "inject" /\ call[s].id = 2 /\ call[s].html = "fonts"
    /\ net[Abs("h", "b")] = "ok" /\ net[Abs("h", "c")] = "fail"
    /\ Len(injLog) = 1 /\ injLog[1].by = 1 /\ HtmlOf(1) = "fonts"
    /\ Len(col[s].fontSet) = 2
    /\ Range(injLog[1].rules) = Range(col[s].fontSet)

\* C35: when the collector has returned an empty set, the step of
\* extractAndInjectFontFaces after its await leaves the host document as
\* it is (no sink element is created, no text of a sink is written) and
\* makes no injectFontFaces call.
C35_EmptySetInjectsNothing ==
  [][\A s \in Slots :
       (InjectStep(s) /\ col[s].fontSet = <<>>) => (head' = head /\ injLog' = injLog)]_vars

\* A direct injectFontFaces call made the default sink, then
\* extractAndInjectFontFaces resolved on the document without styles: the
\* sink holds what the direct call wrote and no other injection is on
\* record.
C35_Witness ==
  /\ Len(head) = 1 /\ head[1].id = DefaultSink
  /\ Len(injLog) = 1 /\ injLog[1].by = 0
  /\ head[1].text = WriteText(injLog[1].existing,
                              AppendedAfter(injLog[1].existing, injLog[1].rules,
                                            Len(injLog[1].rules)))
  /\ head[1].text # <<>>
  /\ \E d \in DOMAIN doneLog :
       /\ doneLog[d].kind = "extract" /\ doneLog[d].html = "plain"
       /\ doneLog[d].sink = DefaultSink /\ doneLog[d].id = 2

\* The style blocks processCss has returned from, in the order of their
\* return.
StylesReturned(c) ==
  [k \in DOMAIN SelectSeq(c.returned, LAMBDA r : r.base = c.docBase) |->
     SelectSeq(c.returned, LAMBDA r : r.base = c.docBase)[k].css]

\* The first n style blocks of a document as processCss reads them.
FirstStyles(doc, n) == [i \in 1..n |-> StripComments(doc.styles[i])]

\* C36: one collector call goes through its sources one after another.
\* Only the fetch made last can be outstanding; the sources in progress
\* form one chain, a style block or the sheet of a link at the bottom and
\* above each source a sheet it imports; while the style blocks are gone
\* through, the blocks before the one in progress have returned, in
\* document order, and no later one has been entered; and once the loop
\* over the links has begun every style block has returned.
C36_OneSourceAtATime ==
  \A s \in Slots :
    (call[s].kind \in Extracting /\ pc[s] \in {"fetch", "text", "inject"}) =>
      \E c \in {col[s]}, doc \in {Parse(call[s].html)} :
        /\ \A k \in 1..(Len(c.fetched) - 1) : net[c.fetched[k]] # "unset"
        /\ pc[s] \in {"fetch", "text"} <=> c.pending # NoUrl
        /\ c.pending # NoUrl => c.pending = c.fetched[Len(c.fetched)]
        /\ \A k \in 2..Len(c.stack) :
             c.stack[k].base \in ImportsAt(c.stack[k - 1].css, c.stack[k - 1].base)
        /\ (c.pending # NoUrl /\ c.stack # <<>>) =>
             c.pending \in ImportsAt(c.stack[Len(c.stack)].css, c.stack[Len(c.stack)].base)
        /\ c.phase = "styles" =>
             /\ c.stack # <<>>
             /\ c.stack[1] = [css |-> StripComments(doc.styles[c.idx]), base |-> c.docBase]
             /\ StylesReturned(c) = FirstStyles(doc, c.idx - 1)
        /\ c.phase \in {"links", "done"} =>
             /\ StylesReturned(c) = FirstStyles(doc, Len(doc.styles))
             /\ c.stack # <<>> =>
                  c.stack[1].base = ResolveUrl(LinkBeingFetched(c, doc).href, c.docBase)
             /\ (c.pending # NoUrl /\ c.stack = <<>>) =>
                  c.pending = ResolveUrl(LinkBeingFetched(c, doc).href, c.docBase)

\* The loop over the links is fetching its first stylesheet, h/b.css: both
\* style blocks have returned, the first after its imports s/a.css, whose
\* fetch failed, and h/c.css had settled.
C36_Witness ==
  \E s \in Slots :
    /\ pc[s] = "fetch"
    /\ col[s].phase = "links" /\ col[s].stack = <<>>
    /\ col[s].fetched = <<Abs("s", "a"), Abs("h", "c"), Abs("h", "b")>>
    /\ net[Abs("s", "a")] = "fail"
    /\ Len(StylesReturned(col[s])) = 2

====
